---- MODULE Spec2Model ----
(***************************************************************************)
(* Subscription-driven refresh scheduler, subscription registry and fetch  *)
(* coordinator of the sport server.                                        *)
(*                                                                         *)
(* The repository holds the sport-level server (src/unnamed/part_000) and  *)
(* three revisions of the match-level server, concatenated in src/index.js *)
(* (lines 1-604, 605-1187, 1188-1741).                                     *)
(*                                                                         *)
(*   Spec       the scheduler and registry of the sport-level server       *)
(*   SpecFetch  its fetch coordinator (fetchSportData, fetchDataByDate and  *)
(*              the cache) under calls made one after the other            *)
(*   SpecByDate one call of fetchSportData on the empty cache, with every  *)
(*              combination of answers to the per-date calls               *)
(*   SpecRace   overlapping calls of fetchSportData by updateData and by   *)
(*              the REST handler, for one cache key                        *)
(*   SpecUpdate the updates of one sport with their fetches and emits,     *)
(*              while sockets subscribe and leave                          *)
(*   SpecReject SpecUpdate with the end of the process on an unhandled     *)
(*              rejection                                                  *)
(*   SpecLive   the updates of one sport under fair scheduling, with an    *)
(*              upstream whose calls succeed                               *)
(*   SpecMatch  subscriptions to a single match in src/index.js            *)
(*   SpecMatches1 the first revision of src/index.js: subscriptions to a   *)
(*              sport's matches and to single matches, with the updates    *)
(*   SpecRetry  the retrying fetchMatches of the second revision           *)
(*   SpecMatches3 subscriptions to a sport's matches and their updates in  *)
(*              the third revision of src/index.js                         *)
(*   SpecDetails3 subscriptions to a match of either sport in the third    *)
(*              revision of src/index.js                                   *)
(*   SpecKey    buildCacheKey applied to parameter objects                 *)
(*   SpecDates  getDateRange applied on one day after the other            *)
(*   SpecInvalid subscribes and requests that name no sport                *)
(*                                                                         *)
(* Time is Date.now() in milliseconds.  A setInterval callback is a step   *)
(* that may be taken whenever its timer is live; the period of a timer is  *)
(* not tracked.  An async function is one step up to its await and one     *)
(* step for its continuation.                                              *)
(***************************************************************************)
EXTENDS Integers, FiniteSets, Sequences, TLC

\* ------------------------------------------------------------ bounds
NumSockets == 2
MaxClockSteps == 2
MaxInflight == 1
MaxTtlSteps == 3
MaxRaceSteps == 1
MaxParams == 2
MaxDay == 125
MaxWindow == 7

\* ------------------------------------------------- program constants
\* null: falsy, and 0 in arithmetic.
NULL == 0

INACTIVITY_TIMEOUT == 300000
CACHE_TTL == 60000
MAX_LIMIT == 100
DAYS_RANGE == 7

\* The sports modelled: two of the eight the source lists.
SPORTS == {"football", "cricket"}

\* socket.id of the connections.
Sockets == 1..NumSockets

\* Date.now() when the server starts: later than any timeout.
StartTime == 2 * INACTIVITY_TIMEOUT

VARIABLES
  now,         \* Date.now()
  users,       \* activeSubscriptions[sport].users
  interval,    \* activeSubscriptions[sport].interval: NULL or a timer id
  lastActive,  \* activeSubscriptions[sport].lastActive
  timers,      \* the live setInterval timers of the updates: [id, sport]
  inflight,    \* per sport, the updateData calls suspended at their await
  emptySince,  \* history: when users[sport] last became empty, NULL while
               \* it has members or never had any
  sweepDue,    \* the sweep timer has not fired since time last advanced
  cache,       \* sportDataCache: per cache key an entry or UNDEFINED
  call,        \* per caller, its call of fetchSportData
  sent,        \* the messages the last step emitted to sockets
  socketState, \* index.js: per socket "new", "open" or "closed"
  matchRoom,   \* index.js: per match, the sockets in room `${sport}-${matchId}`
  activeMatchSubscriptions,  \* index.js: per match that has one, its Set
  matchDetailsCache,         \* index.js: per match that has one, its entry
  matchFetch,  \* index.js: per socket, the match whose fetchMatchDetails,
               \* called by its subscribe-match, awaits axios; or NoMatch
  activeSubscriptions,  \* index.js: activeSubscriptions[sport] of one sport
  matchesCache,         \* index.js: per key that has one, its entry
  updateRun,   \* index.js: the run of updateMatches: where it stands, the
               \* matches it fetched, the detail fetches it awaits
  matchesCall  \* index.js, second revision: per caller, its call of
               \* fetchMatches

\* The variables of the scheduler and registry, and of the fetch coordinator.
schedVars == <<users, interval, lastActive, timers, inflight, emptySince,
               sweepDue>>
fetchVars == <<cache, call>>

\* The variables of src/index.js: of its sport-level subscriptions and
\* updates, and of its match-level subscriptions.
listVars == <<activeSubscriptions, matchesCache, updateRun>>
matchVars == <<socketState, matchRoom, activeMatchSubscriptions,
               matchDetailsCache, matchFetch, listVars, matchesCall>>

vars == <<now, users, interval, lastActive, timers, inflight, emptySince,
          sweepDue, cache, call, sent, socketState, matchRoom,
          activeMatchSubscriptions, matchDetailsCache, matchFetch,
          activeSubscriptions, matchesCache, updateRun, matchesCall>>

\* The step emits no message.
NoEmit == sent' = {}

\* ------------------------------------------------------------ timers
\* setInterval returns a handle that no live timer has.
FreshTimerId ==
  CHOOSE n \in 1..(Cardinality(timers) + 1) : \A t \in timers : t.id # n

setInterval(sport) == timers \cup {[id |-> FreshTimerId, sport |-> sport]}

\* clearInterval of the handles `ids`.
clearInterval(ids) == {t \in timers : t.id \notin ids}

\* The live timers whose callback updates `sport`.
TimersOf(sport) == {t \in timers : t.sport = sport}

\* ----------------------------------------- part_000: the scheduler
\* updateData up to its await: fetchSportData(sport) is called.
updateData(sport) ==
  /\ inflight[sport] < MaxInflight
  /\ inflight' = [inflight EXCEPT ![sport] = @ + 1]

\* Mutant: startSportUpdates without its initial updateData() call.
startSportUpdates_NoInitialFetch(sport) ==
  IF interval[sport] # NULL
    THEN UNCHANGED <<interval, timers, inflight>>
    ELSE /\ interval' = [interval EXCEPT ![sport] = FreshTimerId]
         /\ timers' = setInterval(sport)
         /\ UNCHANGED inflight

\* Mutant: startSportUpdates without its early return.
startSportUpdates_NoEarlyReturn(sport) ==
  /\ updateData(sport)
  /\ interval' = [interval EXCEPT ![sport] = FreshTimerId]
  /\ timers' = setInterval(sport)

\* startSportUpdates(sport).
startSportUpdates(sport) ==
  IF interval[sport] # NULL
    THEN UNCHANGED <<interval, timers, inflight>>
    ELSE /\ updateData(sport)
         /\ interval' = [interval EXCEPT ![sport] = FreshTimerId]
         /\ timers' = setInterval(sport)

\* stopSportUpdates(sport) clears the timer of the sport if there is one.
stopSportUpdates(sport) == interval[sport] # NULL

\* Mutant: a sweep that does not look at the subscribers.
SweepInactive_IgnoresUsers(sport) ==
  /\ lastActive[sport] # NULL
  /\ (now - lastActive[sport]) > INACTIVITY_TIMEOUT

\* The condition under which the inactivity sweep stops a sport.
SweepInactive(sport) ==
  /\ Cardinality(users[sport]) = 0
  /\ lastActive[sport] # NULL
  /\ (now - lastActive[sport]) > INACTIVITY_TIMEOUT

\* ------------------------------------ part_000: values of the fetcher
\* undefined: what Map.get gives for a key that was never set.
UNDEFINED == [undefined |-> TRUE]

\* The day of Date.now(): moment() of getDateRange, counted in days.
Today == now \div (24 * 60 * 60 * 1000)

\* A match of the upstream API: an object, here its id and its day.
Match(id, day) == [id |-> id, date |-> day]

\* The value null inside a collection.
NullValue == Match("null", 0)

\* response.data: a collection (items), a single object (value) or null.
ArrayBody(items) == [isArray |-> TRUE, items |-> items, value |-> NullValue]
ObjectBody(obj) == [isArray |-> FALSE, items |-> <<>>, value |-> obj]
NullBody == ObjectBody(NullValue)

\* What axios.get does: it resolves with a response, or rejects with an
\* error whose response.status is the HTTP status, 0 when there is no
\* response (network error, timeout).
Resolves(body) == [ok |-> TRUE, status |-> 200, body |-> body]
Rejects(status) == [ok |-> FALSE, status |-> status, body |-> NullBody]

\* A page of MAX_LIMIT matches: what the API returns when it has more.
FullPage == [i \in 1..MAX_LIMIT |-> Match("m", Today)]

\* The answers of the upstream to the direct call.
DirectResponses ==
  { Resolves(ArrayBody(<<Match("a", Today)>>)),
    Resolves(ArrayBody(SubSeq(FullPage, 1, MAX_LIMIT - 1))),
    Resolves(ObjectBody(Match("o", Today))),
    Resolves(NullBody),
    Resolves(ArrayBody(FullPage)),
    Rejects(400), Rejects(500), Rejects(404), Rejects(0) }

\* The kinds of answer of the upstream to the call for one date, and the
\* answer of each kind for the date `day`.
DateKinds == {"array", "object", "null", "fail"}

DateResponse(kind, day) ==
  CASE kind = "array"  -> Resolves(ArrayBody(<<Match("x", day), Match("y", day)>>))
    [] kind = "object" -> Resolves(ObjectBody(Match("o", day)))
    [] kind = "null"   -> Resolves(NullBody)
    [] kind = "fail"   -> Rejects(0)

\* The answers to the seven per-date calls of one fetchDataByDate that the
\* long-running specification draws from: none answered, and a mix.
MixedPlan == <<"array", "fail", "object", "null", "array", "fail", "array">>

SampledPlans == {[i \in 1..DAYS_RANGE |-> "fail"], MixedPlan}

\* The answers to the direct call that overlapping calls draw from.
RaceResponses ==
  { Resolves(ArrayBody(<<Match("a", Today)>>)),
    Resolves(ObjectBody(Match("o", Today))),
    Resolves(ArrayBody(FullPage)),
    Rejects(500), Rejects(0) }

\* The query parameter names of GET /:sport/matches in the order of
\* Array.prototype.sort (code units), and the requests modelled.
ParamNames == <<"awayTeamId", "countryCode", "date", "homeTeamId",
                "leagueId", "leagueName", "season", "timezone">>

Requests ==
  { [sport |-> "football", params |-> <<>>],
    [sport |-> "football",
     params |-> <<[name |-> "leagueId", value |-> "39"]>>] }

\* The callers of fetchSportData: the REST handler and updateData.
Callers == {"request", "timer"}

\* ---------------------------------- part_000: helpers of the fetcher
\* Mutant: a window that begins today.
getDateRangeOn_FromToday(today, days) == [i \in 1..days |-> today + (i - 1)]

\* getDateRange(days) called on the day `today` of moment(): `days`
\* consecutive days from floor(days/2) before today.
getDateRangeOn(today, days) ==
  LET startDate == today - (days \div 2)
  IN  [i \in 1..days |-> startDate + (i - 1)]

\* getDateRange(days); in the fetcher a day stands for its 'YYYY-MM-DD'
\* string.
getDateRange(days) == getDateRangeOn(Today, days)

\* Mutant: a buildCacheKey that keeps the parameters in insertion order.
buildCacheKey_Unsorted(sport, params) == <<sport, params>>

\* buildCacheKey(sport, params): the sport and the parameters sorted by name.
buildCacheKey(sport, params) ==
  LET names == {params[i].name : i \in DOMAIN params}
      sorted == SelectSeq(ParamNames, LAMBDA n : n \in names)
      valueOf(n) == (CHOOSE i \in DOMAIN params : params[i].name = n)
  IN  <<sport, [j \in DOMAIN sorted |->
                  [name |-> sorted[j],
                   value |-> params[valueOf(sorted[j])].value]]>>

CacheKeys == {buildCacheKey(r.sport, r.params) : r \in Requests}

\* Mutant: a normalisation that takes every body for a collection, so that
\* a single object counts for nothing.
normalize_DropsObject(body) == body.items

\* Array.isArray(response.data) ? response.data : [response.data]
normalize(body) == IF body.isArray THEN body.items ELSE <<body.value>>

\* if (response.data): null is falsy, an object or a collection is truthy.
Truthy(body) == body.isArray \/ body.value # NullValue

\* An object of parameters: its name/value pairs, distinct names, in the
\* order of their insertion.
ParamObjects(names, values) ==
  LET Pairs == [name : names, value : values]
  IN  UNION { { p \in [1..n -> Pairs] :
                  \A i, j \in 1..n : i # j => p[i].name # p[j].name } :
              n \in 0..MaxParams }

\* The parameter objects buildCacheKey is applied to.
KeyParams ==
  ParamObjects({"date", "leagueId", "season", "timezone"}, {"1", "2"})

\* Mutant: a cache write that keeps the entry a key already has.
cacheSet_KeepsExisting(key, data) ==
  IF cache[key] # UNDEFINED THEN cache
  ELSE [cache EXCEPT ![key] = [data |-> data, timestamp |-> now]]

\* Mutant: a cache write that leaves the entry without its timestamp.
cacheSet_Unstamped(key, data) ==
  [cache EXCEPT ![key] = [data |-> data, timestamp |-> NULL]]

\* Mutant: a freshness test that counts age == CACHE_TTL as fresh.
isFresh_Inclusive(entry) == now - entry.timestamp <= CACHE_TTL

\* Date.now() - cachedData.timestamp < CACHE_TTL
isFresh(entry) == now - entry.timestamp < CACHE_TTL

\* Map.set(key, value) on a map held as a function over its keys.
mapSet(map, key, value) ==
  [k \in DOMAIN map \cup {key} |-> IF k = key THEN value ELSE map[k]]

\* Mutant: a cache of one entry, whose write evicts every other key.
cacheSet_Evicts(key, data) ==
  [k \in DOMAIN cache \cup {key} |->
     IF k = key THEN [data |-> data, timestamp |-> now] ELSE UNDEFINED]

\* sportDataCache.set(key, {data, timestamp: Date.now()})
cacheSet(key, data) ==
  mapSet(cache, key, [data |-> data, timestamp |-> now])

\* The upstream calls: the parameters axios.get adds to params.
DirectCall == [limit |-> MAX_LIMIT, date |-> NULL, dated |-> FALSE]
DateCall(day) == [limit |-> MAX_LIMIT, date |-> day, dated |-> TRUE]

\* sportDataCache.get(key): undefined for a key that was never set.
cacheGet(key) == IF key \in DOMAIN cache THEN cache[key] ELSE UNDEFINED

\* An emit of data with lastUpdated to the sockets `to`: how is "room" for
\* io.to(room).emit and "socket" for socket.emit; topic is the sport of a
\* `${sport}-update` and the matchId of a match-update.
Emit(how, to, topic, data, lastUpdated) ==
  [how |-> how, to |-> to, topic |-> topic, data |-> data,
   lastUpdated |-> lastUpdated]

\* index.js: the matches subscribed to, and no match.
MatchIds == {"m1"}
NoMatch == ""

\* index.js: CACHE_TTL, of both its caches.
CACHE_TTL_INDEX == 30000

\* index.js: null where match details are expected; details are held as a
\* sequence of one.
NullDetails == <<"null">>

\* index.js: what axios.get of a match's details does: it resolves with
\* response.data, which may be null, or rejects.
MatchResponses ==
  {[ok |-> TRUE, data |-> <<"d1">>], [ok |-> TRUE, data |-> NullDetails],
   [ok |-> FALSE, data |-> NullDetails]}

\* index.js: updateMatches at rest.
IdleRun == [pc |-> "idle", matches |-> <<>>, pending |-> {}]

\* index.js: what axios.get of the list of matches does: it resolves with
\* the matches, here their ids, or rejects.
ListResponses ==
  {[ok |-> TRUE, items |-> <<"m1">>], [ok |-> TRUE, items |-> <<>>],
   [ok |-> FALSE, items |-> <<>>]}

\* index.js, second revision: a call of fetchMatches.  pc is where it
\* stands: "attempt" is the await of axios, "delay" the await of the
\* setTimeout before the next attempt, "returned" and "threw" its ends.
\* retries is its parameter, attempts counts the calls of axios made for
\* the caller's call.
IdleMatchesCall ==
  [pc |-> "idle", retries |-> 3, attempts |-> 0, result |-> <<>>]

\* A call of fetchSportData.  pc is where it stands: "direct" and "bydate"
\* are the awaits of the direct call and of a per-date call, "returned" and
\* "threw" its ends, "keyed" a call followed no further than its cacheKey.
\* log lists the upstream calls it has issued, got the answers of the
\* per-date calls, via the path it took, wroteAt when it set its cache
\* entry.  The record of a call stays until its caller calls again.
IdleCall ==
  [pc |-> "idle", sport |-> "", params |-> <<>>, cacheKey |-> <<>>,
   cachedData |-> UNDEFINED,
   dates |-> <<>>, allData |-> <<>>, plan |-> <<>>, log |-> <<>>,
   got |-> <<>>, via |-> "", started |-> NULL, wroteAt |-> NULL,
   result |-> <<>>, error |-> NULL]

\* The end of a call: its local variables go out of scope.
Ended(me) ==
  [me EXCEPT !.cachedData = UNDEFINED, !.dates = <<>>, !.allData = <<>>,
             !.plan = <<>>]

Init ==
  /\ now = StartTime
  /\ users = [sp \in SPORTS |-> {}]
  /\ interval = [sp \in SPORTS |-> NULL]
  /\ lastActive = [sp \in SPORTS |-> NULL]
  /\ timers = {}
  /\ inflight = [sp \in SPORTS |-> 0]
  /\ emptySince = [sp \in SPORTS |-> NULL]
  /\ sweepDue = FALSE
  /\ cache = [k \in CacheKeys |-> UNDEFINED]
  /\ call = [c \in Callers |-> IdleCall]
  /\ sent = {}
  /\ socketState = [s \in Sockets |-> "new"]
  /\ matchRoom = [id \in MatchIds |-> {}]
  /\ activeMatchSubscriptions = <<>>
  /\ matchDetailsCache = <<>>
  /\ matchFetch = [s \in Sockets |-> NoMatch]
  /\ activeSubscriptions =
       [users |-> {}, interval |-> NULL, lastUpdated |-> NULL,
        isActive |-> FALSE]
  /\ matchesCache = <<>>
  /\ updateRun = IdleRun
  /\ matchesCall = [c \in Callers |-> IdleMatchesCall]

\* socket.on('subscribe', {sport}) for a known sport: the socket joins, the
\* updates are started for a first subscriber, and the entry of the sport's
\* parameterless key, if there is one, is emitted to the socket.
Subscribe(s, sport) ==
  /\ users' = [users EXCEPT ![sport] = @ \cup {s}]
  /\ IF Cardinality(users'[sport]) = 1
       THEN startSportUpdates(sport)
       ELSE UNCHANGED <<interval, timers, inflight>>
  /\ emptySince' = [emptySince EXCEPT ![sport] = NULL]
  /\ sent' = IF cacheGet(buildCacheKey(sport, <<>>)) # UNDEFINED
               THEN {Emit("socket", {s}, sport,
                          cacheGet(buildCacheKey(sport, <<>>)).data,
                          cacheGet(buildCacheKey(sport, <<>>)).timestamp)}
               ELSE {}
  /\ UNCHANGED <<now, lastActive, sweepDue, cache, call>>
  /\ UNCHANGED matchVars

\* Mutant: unsubscribe that leaves the room but keeps the registry entry.
Unsubscribe_KeepsMember(s, sport) ==
  /\ lastActive' = IF Cardinality(users[sport] \ {s}) = 0
                     THEN [lastActive EXCEPT ![sport] = now]
                     ELSE lastActive
  /\ UNCHANGED <<now, users, interval, timers, inflight, emptySince, sweepDue>>
  /\ UNCHANGED fetchVars
  /\ NoEmit
  /\ UNCHANGED matchVars

\* Mutant: an unsubscribe that stops the updates of the sport itself when
\* it has emptied the set.
Unsubscribe_StopsUpdates(s, sport) ==
  /\ users' = [users EXCEPT ![sport] = @ \ {s}]
  /\ lastActive' = IF Cardinality(users'[sport]) = 0
                     THEN [lastActive EXCEPT ![sport] = now]
                     ELSE lastActive
  /\ emptySince' = IF users[sport] = {s}
                     THEN [emptySince EXCEPT ![sport] = now]
                     ELSE emptySince
  /\ interval' = IF users'[sport] = {}
                   THEN [interval EXCEPT ![sport] = NULL] ELSE interval
  /\ timers' = IF users'[sport] = {}
                 THEN clearInterval({interval[sport]}) ELSE timers
  /\ UNCHANGED <<now, inflight, sweepDue, cache, call>>
  /\ NoEmit
  /\ UNCHANGED matchVars

\* socket.on('unsubscribe', {sport}) for a known sport.
Unsubscribe(s, sport) ==
  /\ users' = [users EXCEPT ![sport] = @ \ {s}]
  /\ lastActive' = IF Cardinality(users'[sport]) = 0
                     THEN [lastActive EXCEPT ![sport] = now]
                     ELSE lastActive
  /\ emptySince' = IF users[sport] = {s}
                     THEN [emptySince EXCEPT ![sport] = now]
                     ELSE emptySince
  /\ UNCHANGED <<now, interval, timers, inflight, sweepDue, cache, call>>
  /\ NoEmit
  /\ UNCHANGED matchVars

\* Mutant: disconnect that stamps lastActive of every empty sport, as
\* unsubscribe does, whether or not the socket was a member.
Disconnect_StampsEveryEmpty(s) ==
  /\ users' = [sp \in SPORTS |-> users[sp] \ {s}]
  /\ lastActive' = [sp \in SPORTS |->
                      IF Cardinality(users'[sp]) = 0
                        THEN now ELSE lastActive[sp]]
  /\ emptySince' = [sp \in SPORTS |->
                      IF users[sp] = {s} THEN now ELSE emptySince[sp]]
  /\ UNCHANGED <<now, interval, timers, inflight, sweepDue, cache, call>>
  /\ NoEmit
  /\ UNCHANGED matchVars

\* socket.on('disconnect').
Disconnect(s) ==
  /\ users' = [sp \in SPORTS |-> users[sp] \ {s}]
  /\ lastActive' = [sp \in SPORTS |->
                      IF s \in users[sp] /\ Cardinality(users'[sp]) = 0
                        THEN now ELSE lastActive[sp]]
  /\ emptySince' = [sp \in SPORTS |->
                      IF users[sp] = {s} THEN now ELSE emptySince[sp]]
  /\ UNCHANGED <<now, interval, timers, inflight, sweepDue, cache, call>>
  /\ NoEmit
  /\ UNCHANGED matchVars

\* The callback of a live update timer fires: updateData().
Tick(t) ==
  /\ t \in timers
  /\ updateData(t.sport)
  /\ UNCHANGED <<now, users, interval, lastActive, timers, emptySince, sweepDue>>
  /\ UNCHANGED fetchVars
  /\ NoEmit
  /\ UNCHANGED matchVars

\* updateData after its await: fetchSportData returned data (ok), and the
\* update is emitted, or it threw.
UpdateDone(sport, ok) ==
  /\ inflight[sport] > 0
  /\ inflight' = [inflight EXCEPT ![sport] = @ - 1]
  /\ lastActive' = IF ok THEN [lastActive EXCEPT ![sport] = now]
                         ELSE lastActive
  /\ UNCHANGED <<now, users, interval, timers, emptySince, sweepDue, cache, call>>
  /\ NoEmit
  /\ UNCHANGED matchVars

\* The inactivity sweep, the callback of the one-minute timer.
Sweep ==
  LET stopped == {sp \in SPORTS : SweepInactive(sp) /\ stopSportUpdates(sp)}
  IN  /\ interval' = [sp \in SPORTS |->
                        IF sp \in stopped THEN NULL ELSE interval[sp]]
      /\ timers' = clearInterval({interval[sp] : sp \in stopped})
      /\ sweepDue' = FALSE
      /\ UNCHANGED <<now, users, lastActive, inflight, emptySince, cache, call>>
      /\ NoEmit
      /\ UNCHANGED matchVars

\* Time passes.  The sweep timer (one minute) fires at least once in every
\* INACTIVITY_TIMEOUT, so time advances again only after a sweep.
AdvanceTime ==
  /\ now < StartTime + MaxClockSteps * INACTIVITY_TIMEOUT
  /\ ~sweepDue
  /\ now' = now + INACTIVITY_TIMEOUT
  /\ sweepDue' = TRUE
  /\ UNCHANGED <<users, interval, lastActive, timers, inflight, emptySince>>
  /\ UNCHANGED fetchVars
  /\ NoEmit
  /\ UNCHANGED matchVars

Next ==
  \/ \E s \in Sockets, sp \in SPORTS : Subscribe(s, sp)
  \/ \E s \in Sockets, sp \in SPORTS : Unsubscribe(s, sp)
  \/ \E s \in Sockets : Disconnect(s)
  \/ \E t \in timers : Tick(t)
  \/ \E sp \in SPORTS, ok \in BOOLEAN : UpdateDone(sp, ok)
  \/ Sweep
  \/ AdvanceTime

Spec == Init /\ [][Next]_vars

\* ------------------------------------------ part_000: the fetcher
\* Mutant: a cache hit that re-stamps the entry it serves.
FetchStart_HitRestamps(c, req) ==
  LET cacheKey == buildCacheKey(req.sport, req.params)
      cachedData == cacheGet(cacheKey)
      begun == [IdleCall EXCEPT !.sport = req.sport, !.params = req.params,
                                !.cacheKey = cacheKey,
                                !.cachedData = cachedData, !.started = now]
  IN  /\ call[c].pc \in {"idle", "returned", "threw"}
      /\ IF cachedData # UNDEFINED /\ isFresh(cachedData)
           THEN /\ call' = [call EXCEPT ![c] =
                      Ended([begun EXCEPT !.pc = "returned", !.via = "hit",
                                          !.result = cachedData.data])]
                /\ cache' = cacheSet(cacheKey, cachedData.data)
           ELSE /\ call' = [call EXCEPT ![c] =
                      [begun EXCEPT !.pc = "direct", !.log = <<DirectCall>>]]
                /\ cache' = cache
      /\ UNCHANGED now
      /\ UNCHANGED schedVars
      /\ NoEmit
      /\ UNCHANGED matchVars

\* Mutant: a fetchSportData that joins a call in flight for its key instead
\* of issuing its own direct call.
FetchStart_SingleFlight(c, req) ==
  LET cacheKey == buildCacheKey(req.sport, req.params)
      cachedData == cacheGet(cacheKey)
      begun == [IdleCall EXCEPT !.sport = req.sport, !.params = req.params,
                                !.cacheKey = cacheKey,
                                !.cachedData = cachedData, !.started = now]
      shared == \E d \in Callers \ {c} :
                  /\ call[d].pc \in {"direct", "bydate"}
                  /\ buildCacheKey(call[d].sport, call[d].params) = cacheKey
  IN  /\ call[c].pc \in {"idle", "returned", "threw"}
      /\ call' = [call EXCEPT ![c] =
           IF cachedData # UNDEFINED /\ isFresh(cachedData)
             THEN Ended([begun EXCEPT !.pc = "returned", !.via = "hit",
                                      !.result = cachedData.data])
             ELSE [begun EXCEPT !.pc = "direct",
                                !.log = IF shared THEN <<>> ELSE <<DirectCall>>]]
      /\ UNCHANGED <<now, cache>>
      /\ UNCHANGED schedVars
      /\ NoEmit
      /\ UNCHANGED matchVars

\* fetchSportData(sport, params) up to its first await: a fresh cache entry
\* is returned, otherwise the direct call is issued.
FetchStart(c, req) ==
  LET cacheKey == buildCacheKey(req.sport, req.params)
      cachedData == cacheGet(cacheKey)
      begun == [IdleCall EXCEPT !.sport = req.sport, !.params = req.params,
                                !.cacheKey = cacheKey,
                                !.cachedData = cachedData, !.started = now]
  IN  /\ call[c].pc \in {"idle", "returned", "threw"}
      /\ call' = [call EXCEPT ![c] =
           IF cachedData # UNDEFINED /\ isFresh(cachedData)
             THEN Ended([begun EXCEPT !.pc = "returned", !.via = "hit",
                                      !.result = cachedData.data])
             ELSE [begun EXCEPT !.pc = "direct", !.log = <<DirectCall>>]]
      /\ UNCHANGED <<now, cache>>
      /\ UNCHANGED schedVars
      /\ NoEmit
      /\ UNCHANGED matchVars

\* fetchDataByDate(sport, params) up to its first await: the call for the
\* first date is issued.
fetchDataByDate(me, plan) ==
  LET dates == getDateRange(DAYS_RANGE)
  IN  [me EXCEPT !.pc = "bydate", !.dates = dates, !.allData = <<>>,
                 !.plan = plan, !.log = Append(@, DateCall(dates[1]))]

\* Mutant: a fetchSportData whose catch answers with an empty result, which
\* it stores, where it has no entry to fall back on.
DirectResponds_EmptyOnError(c, resp, plan) ==
  LET me == call[c]
      cacheKey == buildCacheKey(me.sport, me.params)
      matches == normalize(resp.body)
  IN  /\ me.pc = "direct"
      /\ CASE resp.ok /\ Len(matches) >= MAX_LIMIT ->
                /\ call' = [call EXCEPT ![c] =
                     fetchDataByDate([me EXCEPT !.via = "truncated"], plan)]
                /\ cache' = cache
           [] resp.ok /\ Len(matches) < MAX_LIMIT ->
                /\ cache' = cacheSet(cacheKey, matches)
                /\ call' = [call EXCEPT ![c] =
                     Ended([me EXCEPT !.pc = "returned", !.via = "direct",
                                      !.wroteAt = now, !.result = matches])]
           [] ~resp.ok /\ resp.status \in {400, 500} ->
                /\ call' = [call EXCEPT ![c] =
                     fetchDataByDate([me EXCEPT !.via = "dataerror"], plan)]
                /\ cache' = cache
           [] ~resp.ok /\ resp.status \notin {400, 500}
                /\ me.cachedData # UNDEFINED ->
                /\ call' = [call EXCEPT ![c] =
                     Ended([me EXCEPT !.pc = "returned", !.via = "stale",
                                      !.result = me.cachedData.data])]
                /\ cache' = cache
           [] OTHER ->
                /\ call' = [call EXCEPT ![c] =
                     Ended([me EXCEPT !.pc = "returned", !.via = "error",
                                      !.wroteAt = now, !.result = <<>>])]
                /\ cache' = cacheSet(cacheKey, <<>>)
      /\ UNCHANGED now
      /\ UNCHANGED schedVars
      /\ NoEmit
      /\ UNCHANGED matchVars

\* fetchSportData after the await of its direct call.
DirectResponds(c, resp, plan) ==
  LET me == call[c]
      cacheKey == buildCacheKey(me.sport, me.params)
      matches == normalize(resp.body)
  IN  /\ me.pc = "direct"
      /\ CASE resp.ok /\ Len(matches) >= MAX_LIMIT ->
                /\ call' = [call EXCEPT ![c] =
                     fetchDataByDate([me EXCEPT !.via = "truncated"], plan)]
                /\ cache' = cache
           [] resp.ok /\ Len(matches) < MAX_LIMIT ->
                /\ cache' = cacheSet(cacheKey, matches)
                /\ call' = [call EXCEPT ![c] =
                     Ended([me EXCEPT !.pc = "returned", !.via = "direct",
                                      !.wroteAt = now, !.result = matches])]
           [] ~resp.ok /\ resp.status \in {400, 500} ->
                /\ call' = [call EXCEPT ![c] =
                     fetchDataByDate([me EXCEPT !.via = "dataerror"], plan)]
                /\ cache' = cache
           [] ~resp.ok /\ resp.status \notin {400, 500}
                /\ me.cachedData # UNDEFINED ->
                /\ call' = [call EXCEPT ![c] =
                     Ended([me EXCEPT !.pc = "returned", !.via = "stale",
                                      !.result = me.cachedData.data])]
                /\ cache' = cache
           [] OTHER ->
                /\ call' = [call EXCEPT ![c] =
                     Ended([me EXCEPT !.pc = "threw", !.via = "error",
                                      !.error = resp.status])]
                /\ cache' = cache
      /\ UNCHANGED now
      /\ UNCHANGED schedVars
      /\ NoEmit
      /\ UNCHANGED matchVars

\* Mutant: a fetchDataByDate that puts the newest answer first.
ByDateResponds_Prepends(c, kind) ==
  LET me == call[c]
      i == Len(me.got) + 1
      resp == DateResponse(kind, me.dates[i])
      allData == IF resp.ok /\ Truthy(resp.body)
                   THEN normalize(resp.body) \o me.allData
                   ELSE me.allData
      next == [me EXCEPT !.got = Append(@, kind), !.allData = allData]
  IN  /\ me.pc = "bydate"
      /\ IF i < Len(me.dates)
           THEN /\ call' = [call EXCEPT ![c] =
                      [next EXCEPT !.log = Append(@, DateCall(me.dates[i + 1]))]]
                /\ cache' = cache
           ELSE /\ cache' = cacheSet(buildCacheKey(me.sport, me.params), allData)
                /\ call' = [call EXCEPT ![c] =
                      Ended([next EXCEPT !.pc = "returned", !.wroteAt = now,
                                         !.result = allData])]
      /\ UNCHANGED now
      /\ UNCHANGED schedVars
      /\ NoEmit
      /\ UNCHANGED matchVars

\* Mutant: a fetchDataByDate whose loop ends at the first failing date.
ByDateResponds_AbortsOnFailure(c, kind) ==
  LET me == call[c]
      i == Len(me.got) + 1
      resp == DateResponse(kind, me.dates[i])
      allData == IF resp.ok /\ Truthy(resp.body)
                   THEN me.allData \o normalize(resp.body)
                   ELSE me.allData
      next == [me EXCEPT !.got = Append(@, kind), !.allData = allData]
  IN  /\ me.pc = "bydate"
      /\ IF i < Len(me.dates) /\ resp.ok
           THEN /\ call' = [call EXCEPT ![c] =
                      [next EXCEPT !.log = Append(@, DateCall(me.dates[i + 1]))]]
                /\ cache' = cache
           ELSE /\ cache' = cacheSet(buildCacheKey(me.sport, me.params), allData)
                /\ call' = [call EXCEPT ![c] =
                      Ended([next EXCEPT !.pc = "returned", !.wroteAt = now,
                                         !.result = allData])]
      /\ UNCHANGED now
      /\ UNCHANGED schedVars
      /\ NoEmit
      /\ UNCHANGED matchVars

\* fetchDataByDate after the await of the call for a date: the answer is
\* appended (a failure and a null body add nothing), then the call for the
\* next date is issued or, after the last date, the cache is set and the
\* collected matches are returned.
ByDateResponds(c, kind) ==
  LET me == call[c]
      i == Len(me.got) + 1
      resp == DateResponse(kind, me.dates[i])
      allData == IF resp.ok /\ Truthy(resp.body)
                   THEN me.allData \o normalize(resp.body)
                   ELSE me.allData
      next == [me EXCEPT !.got = Append(@, kind), !.allData = allData]
  IN  /\ me.pc = "bydate"
      /\ IF i < Len(me.dates)
           THEN /\ call' = [call EXCEPT ![c] =
                      [next EXCEPT !.log = Append(@, DateCall(me.dates[i + 1]))]]
                /\ cache' = cache
           ELSE /\ cache' = cacheSet(buildCacheKey(me.sport, me.params), allData)
                /\ call' = [call EXCEPT ![c] =
                      Ended([next EXCEPT !.pc = "returned", !.wroteAt = now,
                                         !.result = allData])]
      /\ UNCHANGED now
      /\ UNCHANGED schedVars
      /\ NoEmit
      /\ UNCHANGED matchVars

\* The per-date call is answered as the plan of the call says.
ByDateRespondsAsPlanned(c) ==
  /\ call[c].pc = "bydate"
  /\ ByDateResponds(c, call[c].plan[Len(call[c].got) + 1])

\* Time passes, half a CACHE_TTL at a time.
FetchTimePasses ==
  /\ now < StartTime + MaxTtlSteps * (CACHE_TTL \div 2)
  /\ now' = now + (CACHE_TTL \div 2)
  /\ UNCHANGED fetchVars
  /\ NoEmit
  /\ UNCHANGED matchVars
  /\ UNCHANGED schedVars

\* The REST handler calls fetchSportData again and again, one call at a
\* time, while time passes.
NextFetch ==
  \/ \E req \in Requests : FetchStart("request", req)
  \/ \E resp \in DirectResponses, plan \in SampledPlans :
       DirectResponds("request", resp, plan)
  \/ ByDateRespondsAsPlanned("request")
  \/ FetchTimePasses

SpecFetch == Init /\ [][NextFetch]_vars

\* The request of updateData: fetchSportData(sport), without parameters.
CanonicalRequest(sport) == [sport |-> sport, params |-> <<>>]

\* Time passes, a CACHE_TTL at a time: an entry turns stale.
RaceTimePasses ==
  /\ now < StartTime + MaxRaceSteps * CACHE_TTL
  /\ now' = now + CACHE_TTL
  /\ UNCHANGED fetchVars
  /\ NoEmit
  /\ UNCHANGED matchVars
  /\ UNCHANGED schedVars

\* The REST handler and updateData call fetchSportData for the same key,
\* each again and again, and their calls overlap at the awaits.
NextRace ==
  \/ \E c \in Callers : FetchStart(c, CanonicalRequest("football"))
  \/ \E c \in Callers, resp \in RaceResponses :
       DirectResponds(c, resp, MixedPlan)
  \/ \E c \in Callers : ByDateRespondsAsPlanned(c)
  \/ RaceTimePasses

SpecRace == Init /\ [][NextRace]_vars

\* ------------------------------- part_000: updateData with its fetch
\* updateData calls fetchSportData(sport).
UpdateFetches(sport) ==
  /\ inflight[sport] > 0
  /\ call["timer"].pc = "idle"
  /\ FetchStart("timer", CanonicalRequest(sport))

\* Mutant: an updateData that stamps lastActive and emits nothing.
UpdatePublishes_Silent(sport) ==
  LET me == call["timer"]
  IN  /\ inflight[sport] > 0
      /\ me.sport = sport
      /\ me.pc \in {"returned", "threw"}
      /\ inflight' = [inflight EXCEPT ![sport] = @ - 1]
      /\ sent' = {}
      /\ lastActive' = IF me.pc = "returned"
                         THEN [lastActive EXCEPT ![sport] = now]
                         ELSE lastActive
      /\ call' = [call EXCEPT !["timer"] = IdleCall]
      /\ UNCHANGED <<now, users, interval, timers, emptySince, sweepDue, cache>>
      /\ UNCHANGED matchVars

\* updateData after its await: what fetchSportData returned is emitted to
\* the room of the sport (the sockets subscribed now) and lastActive is
\* stamped; when fetchSportData threw, updateData ends at once.
UpdatePublishes(sport) ==
  LET me == call["timer"]
  IN  /\ inflight[sport] > 0
      /\ me.sport = sport
      /\ me.pc \in {"returned", "threw"}
      /\ inflight' = [inflight EXCEPT ![sport] = @ - 1]
      /\ IF me.pc = "returned"
           THEN /\ sent' = {Emit("room", users[sport], sport, me.result,
                                 now)}
                /\ lastActive' = [lastActive EXCEPT ![sport] = now]
           ELSE /\ sent' = {}
                /\ lastActive' = lastActive
      /\ call' = [call EXCEPT !["timer"] = IdleCall]
      /\ UNCHANGED <<now, users, interval, timers, emptySince, sweepDue, cache>>
      /\ UNCHANGED matchVars

\* The sport whose updates are followed through their fetches.
UpdatedSport == "football"

\* Sockets come and go while the updates of a sport fetch and publish.
NextUpdate ==
  \/ \E s \in Sockets : Subscribe(s, UpdatedSport)
  \/ \E s \in Sockets : Unsubscribe(s, UpdatedSport)
  \/ \E s \in Sockets : Disconnect(s)
  \/ \E t \in timers : Tick(t)
  \/ UpdateFetches(UpdatedSport)
  \/ \E resp \in RaceResponses, plan \in SampledPlans :
       DirectResponds("timer", resp, plan)
  \/ ByDateRespondsAsPlanned("timer")
  \/ UpdatePublishes(UpdatedSport)
  \/ RaceTimePasses

SpecUpdate == Init /\ [][NextUpdate]_vars

\* updateData after its await, when fetchSportData threw: updateData has no
\* catch and the timer does not look at the promise of its callback, so
\* the rejection is unhandled.  A runtime that only warns leaves it at
\* that, which is UpdatePublishes; a runtime that throws unhandled
\* rejections ends the process, with its sockets, timers and cache, and the
\* server starts again from the state after construction.
UpdateRejects(sport) ==
  LET me == call["timer"]
  IN  /\ inflight[sport] > 0
      /\ me.sport = sport
      /\ me.pc = "threw"
      /\ users' = [sp \in SPORTS |-> {}]
      /\ interval' = [sp \in SPORTS |-> NULL]
      /\ lastActive' = [sp \in SPORTS |-> NULL]
      /\ timers' = {}
      /\ inflight' = [sp \in SPORTS |-> 0]
      /\ emptySince' = [sp \in SPORTS |-> NULL]
      /\ cache' = [k \in CacheKeys |-> UNDEFINED]
      /\ call' = [c \in Callers |-> IdleCall]
      /\ sent' = {Emit("uncaught", {}, sport, <<>>, now)}
      /\ UNCHANGED <<now, sweepDue>>
      /\ UNCHANGED matchVars

\* The updates of a sport with their fetches, on either runtime.
NextReject ==
  \/ NextUpdate
  \/ UpdateRejects(UpdatedSport)

SpecReject == Init /\ [][NextReject]_vars

\* The answers of an upstream whose calls succeed, with less than a full
\* page: a collection and a single object.
OkResponses ==
  { Resolves(ArrayBody(<<Match("a", Today)>>)),
    Resolves(ObjectBody(Match("o", Today))) }

\* The upstream answers the call of updateData's fetch, and it succeeds.
UpstreamAnswers ==
  \E resp \in OkResponses : DirectResponds("timer", resp, <<>>)

\* Sockets come and go and the sweep runs while the updates of a sport
\* fetch from an upstream whose calls succeed, and publish.
NextLive ==
  \/ \E s \in Sockets : Subscribe(s, UpdatedSport)
  \/ \E s \in Sockets : Unsubscribe(s, UpdatedSport)
  \/ \E s \in Sockets : Disconnect(s)
  \/ \E t \in timers : Tick(t)
  \/ UpdateFetches(UpdatedSport)
  \/ UpstreamAnswers
  \/ UpdatePublishes(UpdatedSport)
  \/ Sweep
  \/ AdvanceTime

\* A live timer fires again and again, a call of axios is answered, and a
\* continuation that can run does run.
SpecLive ==
  /\ Init
  /\ [][NextLive]_vars
  /\ WF_vars(\E t \in timers : Tick(t))
  /\ WF_vars(UpdateFetches(UpdatedSport))
  /\ WF_vars(UpstreamAnswers)
  /\ WF_vars(UpdatePublishes(UpdatedSport))

\* ------------------------ index.js: subscriptions to a single match
\* io.on('connection'): a socket with a new id.
ConnectMatch(s) ==
  /\ socketState[s] = "new"
  /\ socketState' = [socketState EXCEPT ![s] = "open"]
  /\ NoEmit
  /\ UNCHANGED <<matchRoom, activeMatchSubscriptions, matchDetailsCache,
                 matchFetch>>
  /\ UNCHANGED <<now, schedVars, fetchVars, matchesCall>>
  /\ UNCHANGED listVars

\* socket.on('subscribe-match', {sport, matchId}) for a known sport: the
\* socket joins the room and the Set of the match; a cached entry is
\* emitted to the socket, and without one fetchMatchDetails is called, whose
\* own look into the cache finds no entry either and which then awaits
\* axios.  A socket has one such call at a time.
SubscribeMatch(s, matchId) ==
  /\ socketState[s] = "open"
  /\ matchFetch[s] = NoMatch
  /\ matchRoom' = [matchRoom EXCEPT ![matchId] = @ \cup {s}]
  /\ activeMatchSubscriptions' =
       mapSet(activeMatchSubscriptions, matchId,
              (IF matchId \in DOMAIN activeMatchSubscriptions
                 THEN activeMatchSubscriptions[matchId] ELSE {}) \cup {s})
  /\ IF matchId \in DOMAIN matchDetailsCache
       THEN /\ sent' = {Emit("socket", {s}, matchId,
                             matchDetailsCache[matchId].data,
                             matchDetailsCache[matchId].timestamp)}
            /\ matchFetch' = matchFetch
       ELSE /\ sent' = {}
            /\ matchFetch' = [matchFetch EXCEPT ![s] = matchId]
  /\ UNCHANGED <<socketState, matchDetailsCache>>
  /\ UNCHANGED <<now, schedVars, fetchVars, matchesCall>>
  /\ UNCHANGED listVars

\* socket.on('unsubscribe-match', {sport, matchId}): nothing when the match
\* has no Set; else the socket leaves the room and the Set.
UnsubscribeMatch(s, matchId) ==
  /\ socketState[s] = "open"
  /\ IF matchId \notin DOMAIN activeMatchSubscriptions
       THEN UNCHANGED <<matchRoom, activeMatchSubscriptions>>
       ELSE /\ matchRoom' = [matchRoom EXCEPT ![matchId] = @ \ {s}]
            /\ activeMatchSubscriptions' =
                 [activeMatchSubscriptions EXCEPT ![matchId] = @ \ {s}]
  /\ NoEmit
  /\ UNCHANGED <<socketState, matchDetailsCache, matchFetch>>
  /\ UNCHANGED <<now, schedVars, fetchVars, matchesCall>>
  /\ UNCHANGED listVars

\* socket.on('disconnect'): the socket is deleted from the users it is in,
\* and when nobody is left lastUpdated is stamped and the sport is marked
\* inactive; it is deleted from every Set of a match and is gone from every
\* room.
DisconnectMatch(s) ==
  /\ socketState[s] = "open"
  /\ socketState' = [socketState EXCEPT ![s] = "closed"]
  /\ LET left == activeSubscriptions.users \ {s}
         last == s \in activeSubscriptions.users /\ left = {}
     IN  activeSubscriptions' =
           [activeSubscriptions EXCEPT
              !.users = left,
              !.lastUpdated = IF last THEN now ELSE @,
              !.isActive = IF last THEN FALSE ELSE @]
  /\ matchRoom' = [id \in MatchIds |-> matchRoom[id] \ {s}]
  /\ activeMatchSubscriptions' =
       [id \in DOMAIN activeMatchSubscriptions |->
          activeMatchSubscriptions[id] \ {s}]
  /\ NoEmit
  /\ UNCHANGED <<matchDetailsCache, matchFetch, matchesCache, updateRun>>
  /\ UNCHANGED <<now, schedVars, fetchVars, matchesCall>>

\* Mutant: a cleanup that deletes the Set of every match.
cleanupInactiveSubscriptions_DeletesAll ==
  /\ activeSubscriptions' =
       [activeSubscriptions EXCEPT
          !.isActive = IF /\ activeSubscriptions.users = {}
                          /\ (now - activeSubscriptions.lastUpdated)
                               > INACTIVITY_TIMEOUT
                         THEN FALSE ELSE @]
  /\ activeMatchSubscriptions' = <<>>
  /\ NoEmit
  /\ UNCHANGED <<socketState, matchRoom, matchDetailsCache, matchFetch,
                 matchesCache, updateRun>>
  /\ UNCHANGED <<now, schedVars, fetchVars, matchesCall>>

\* cleanupInactiveSubscriptions, the callback of the one-minute timer: a
\* sport without users whose lastUpdated (null counts as 0) is more than
\* INACTIVITY_TIMEOUT ago is marked inactive, and the Set of every match
\* that is empty is deleted.
cleanupInactiveSubscriptions ==
  /\ activeSubscriptions' =
       [activeSubscriptions EXCEPT
          !.isActive = IF /\ activeSubscriptions.users = {}
                          /\ (now - activeSubscriptions.lastUpdated)
                               > INACTIVITY_TIMEOUT
                         THEN FALSE ELSE @]
  /\ activeMatchSubscriptions' =
       [id \in {i \in DOMAIN activeMatchSubscriptions :
                  activeMatchSubscriptions[i] # {}} |->
          activeMatchSubscriptions[id]]
  /\ NoEmit
  /\ UNCHANGED <<socketState, matchRoom, matchDetailsCache, matchFetch,
                 matchesCache, updateRun>>
  /\ UNCHANGED <<now, schedVars, fetchVars, matchesCall>>

\* fetchMatchDetails after its await, and the then-callback of
\* subscribe-match, which runs before any other handler: a response is
\* stored and returned; after a failure the data of the entry, if there is
\* one by now, is returned, else null.  Details that are not null are
\* emitted to the socket that subscribed, which drops them when closed.
MatchDetailsResponds(s, resp) ==
  /\ matchFetch[s] # NoMatch
  /\ LET matchId == matchFetch[s]
         details == IF resp.ok THEN resp.data
                    ELSE IF matchId \in DOMAIN matchDetailsCache
                           THEN matchDetailsCache[matchId].data
                           ELSE NullDetails
     IN  /\ matchDetailsCache' =
               IF resp.ok
                 THEN mapSet(matchDetailsCache, matchId,
                             [data |-> resp.data, timestamp |-> now])
                 ELSE matchDetailsCache
         /\ sent' = IF details # NullDetails
                      THEN {Emit("socket",
                                 {t \in {s} : socketState[t] = "open"},
                                 matchId, details, now)}
                      ELSE {}
  /\ matchFetch' = [matchFetch EXCEPT ![s] = NoMatch]
  /\ UNCHANGED <<socketState, matchRoom, activeMatchSubscriptions>>
  /\ UNCHANGED <<now, schedVars, fetchVars, matchesCall>>
  /\ UNCHANGED listVars

\* Sockets subscribe to a match and leave while its details are fetched.
NextMatch ==
  \/ \E s \in Sockets : ConnectMatch(s)
  \/ \E s \in Sockets, matchId \in MatchIds : SubscribeMatch(s, matchId)
  \/ \E s \in Sockets, matchId \in MatchIds : UnsubscribeMatch(s, matchId)
  \/ \E s \in Sockets : DisconnectMatch(s)
  \/ \E s \in Sockets, resp \in MatchResponses : MatchDetailsResponds(s, resp)
  \/ cleanupInactiveSubscriptions
  \/ RaceTimePasses

SpecMatch == Init /\ [][NextMatch]_vars

\* ------------------------------------------- part_000: buildCacheKey
\* fetchSportData(sport, params) as far as its cacheKey.
BuildsCacheKey(c, sport, params) ==
  /\ call' = [call EXCEPT ![c] =
       [IdleCall EXCEPT !.pc = "keyed", !.sport = sport, !.params = params,
                        !.cacheKey = buildCacheKey(sport, params)]]
  /\ UNCHANGED <<now, cache>>
  /\ UNCHANGED schedVars
  /\ NoEmit
  /\ UNCHANGED matchVars

\* buildCacheKey applied to one parameter object after the other.
NextKey ==
  \E sport \in SPORTS, params \in KeyParams :
    BuildsCacheKey("request", sport, params)

SpecKey == Init /\ [][NextKey]_vars

\* ------------------------------------------- part_000: getDateRange
\* format('YYYY-MM-DD') of the day `day` (days since 1970-01-01, in the
\* time zone of the server): its year, month and day of the month in the
\* proleptic Gregorian calendar.
format(day) ==
  LET z == day + 719468
      era == z \div 146097
      doe == z - era * 146097
      yoe == (doe - doe \div 1460 + doe \div 36524 - doe \div 146096) \div 365
      doy == doe - (365 * yoe + yoe \div 4 - yoe \div 100)
      mp == (5 * doy + 2) \div 153
      d == doy - (153 * mp + 2) \div 5 + 1
      m == IF mp < 10 THEN mp + 3 ELSE mp - 9
      y == yoe + era * 400 + (IF m <= 2 THEN 1 ELSE 0)
  IN  <<y, m, d>>

\* The first days of 1970, of the leap years 1972 and 2000 and of 2100,
\* which is no leap year; and the days getDateRange is called on: the
\* first MaxDay days and more of these years.
YearStarts == {0, 730, 10957, 47482}
SampleDays == {first + k : first \in YearStarts, k \in 0..MaxDay}

\* getDateRange(days) is called on the day `today`: the dates it returns,
\* formatted.
DateRangeTaken(c, today, days) ==
  /\ call[c].pc = "idle"
  /\ call' = [call EXCEPT ![c] =
       [IdleCall EXCEPT !.pc = "keyed",
                        !.params = <<[name |-> "days", value |-> days]>>,
                        !.dates = [i \in 1..days |->
                                     format(getDateRangeOn(today, days)[i])]]]
  /\ UNCHANGED <<now, cache>>
  /\ UNCHANGED schedVars
  /\ NoEmit
  /\ UNCHANGED matchVars

\* The caller is done with the dates.
DateRangeUsed(c) ==
  /\ call[c].pc = "keyed"
  /\ call' = [call EXCEPT ![c] = IdleCall]
  /\ UNCHANGED <<now, cache>>
  /\ UNCHANGED schedVars
  /\ NoEmit
  /\ UNCHANGED matchVars

\* getDateRange is called on one day or another, for windows of every
\* length.
NextDates ==
  \/ \E today \in SampleDays, days \in 1..MaxWindow :
       DateRangeTaken("request", today, days)
  \/ DateRangeUsed("request")

SpecDates == Init /\ [][NextDates]_vars

\* ------------- index.js, first revision: the updates of a sport's matches
\* fetchMatches(sport, {date: today}): its cache key
\* `${sport}:${date}:${timezone}:${limit}`.
ListKey1 == <<UpdatedSport, ToString(Today), "UTC", "100">>

\* The cache checks of fetchMatches and of fetchMatchDetails.
freshList ==
  /\ ListKey1 \in DOMAIN matchesCache
  /\ now - matchesCache[ListKey1].timestamp < CACHE_TTL_INDEX
freshDetails(id) ==
  /\ id \in DOMAIN matchDetailsCache
  /\ now - matchDetailsCache[id].timestamp < CACHE_TTL_INDEX

\* The end of updateMatches: the matches are emitted to the room of the
\* sport.
ListEmit(matches) ==
  Emit("room", activeSubscriptions.users, UpdatedSport, matches, now)

\* updateMatches once fetchMatches has returned `matches`, as far as it
\* gets without awaiting axios: for every match that has a Set,
\* fetchMatchDetails is called; one answered from a fresh entry is emitted
\* to the room of the match, the others are awaited; with none to await the
\* matches are emitted.  The messages, and the run as it is left.
DetailsPhase(matches) ==
  LET withSet == {matches[i] : i \in
                    {j \in DOMAIN matches :
                       matches[j] \in DOMAIN activeMatchSubscriptions}}
      hits == {id \in withSet : freshDetails(id)}
      awaited == withSet \ hits
      hitMsgs == {Emit("room", matchRoom[id], id,
                       matchDetailsCache[id].data, now) :
                    id \in {h \in hits :
                              matchDetailsCache[h].data # NullDetails}}
  IN  IF awaited = {}
        THEN [sent |-> hitMsgs \cup {ListEmit(matches)}, run |-> IdleRun,
              done |-> TRUE]
        ELSE [sent |-> hitMsgs,
              run |-> [pc |-> "details", matches |-> matches,
                       pending |-> awaited],
              done |-> FALSE]

\* updateMatches of an active sport up to its first await of axios: the
\* messages, the run as it is left, and whether it ended.
updateMatches ==
  IF freshList THEN DetailsPhase(matchesCache[ListKey1].data)
  ELSE [sent |-> {}, run |-> [IdleRun EXCEPT !.pc = "list"], done |-> FALSE]

\* socket.on('subscribe-matches', sport) for a known sport: the socket
\* joins; for a sport that is not active startMatchUpdates marks it active
\* and, without an interval, calls updateMatches and sets the interval; the
\* entry of today's key, if there is one, is emitted to the socket.
SubscribeMatches1(s) ==
  /\ socketState[s] = "open"
  /\ LET starts == /\ ~activeSubscriptions.isActive
                   /\ activeSubscriptions.interval = NULL
         first == IF starts THEN updateMatches
                  ELSE [sent |-> {}, run |-> updateRun, done |-> FALSE]
         replay == IF ListKey1 \in DOMAIN matchesCache
                     THEN {Emit("socket", {s}, UpdatedSport,
                                matchesCache[ListKey1].data,
                                matchesCache[ListKey1].timestamp)}
                     ELSE {}
     IN  /\ activeSubscriptions' =
               [activeSubscriptions EXCEPT
                  !.users = @ \cup {s},
                  !.isActive = TRUE,
                  !.interval = IF starts THEN 1 ELSE @,
                  !.lastUpdated = IF first.done THEN now ELSE @]
         /\ updateRun' = first.run
         /\ sent' = first.sent \cup replay
  /\ UNCHANGED <<socketState, matchRoom, activeMatchSubscriptions,
                 matchDetailsCache, matchFetch, matchesCache>>
  /\ UNCHANGED <<now, schedVars, fetchVars, matchesCall>>

\* Mutant: an unsubscribe-matches that leaves the sport marked active.
UnsubscribeMatches1_StaysActive(s) ==
  /\ socketState[s] = "open"
  /\ LET left == activeSubscriptions.users \ {s}
     IN  activeSubscriptions' =
           [activeSubscriptions EXCEPT
              !.users = left,
              !.lastUpdated = IF left = {} THEN now ELSE @]
  /\ NoEmit
  /\ UNCHANGED <<socketState, matchRoom, activeMatchSubscriptions,
                 matchDetailsCache, matchFetch, matchesCache, updateRun>>
  /\ UNCHANGED <<now, schedVars, fetchVars, matchesCall>>

\* socket.on('unsubscribe-matches', sport): the socket leaves; when nobody
\* is left lastUpdated is stamped and the sport is marked inactive.
UnsubscribeMatches1(s) ==
  /\ socketState[s] = "open"
  /\ LET left == activeSubscriptions.users \ {s}
     IN  activeSubscriptions' =
           [activeSubscriptions EXCEPT
              !.users = left,
              !.lastUpdated = IF left = {} THEN now ELSE @,
              !.isActive = IF left = {} THEN FALSE ELSE @]
  /\ NoEmit
  /\ UNCHANGED <<socketState, matchRoom, activeMatchSubscriptions,
                 matchDetailsCache, matchFetch, matchesCache, updateRun>>
  /\ UNCHANGED <<now, schedVars, fetchVars, matchesCall>>

\* The interval fires: updateMatches, which for a sport that is not active
\* clears the interval.  One run at a time is followed.
Tick1 ==
  /\ activeSubscriptions.interval # NULL
  /\ updateRun.pc = "idle"
  /\ IF activeSubscriptions.isActive
       THEN /\ updateRun' = updateMatches.run
            /\ sent' = updateMatches.sent
            /\ activeSubscriptions' =
                 [activeSubscriptions EXCEPT
                    !.lastUpdated = IF updateMatches.done THEN now ELSE @]
       ELSE /\ activeSubscriptions' =
                 [activeSubscriptions EXCEPT !.interval = NULL]
            /\ sent' = {}
            /\ updateRun' = updateRun
  /\ UNCHANGED <<socketState, matchRoom, activeMatchSubscriptions,
                 matchDetailsCache, matchFetch, matchesCache>>
  /\ UNCHANGED <<now, schedVars, fetchVars, matchesCall>>

\* fetchMatches after its await, and updateMatches as far as it gets: a
\* response is stored and returned; after a failure the data of the entry,
\* if there is one, is returned, else the error is thrown and updateMatches
\* logs it.
ListResponds1(resp) ==
  /\ updateRun.pc = "list"
  /\ LET returns == resp.ok \/ ListKey1 \in DOMAIN matchesCache
         matches == IF resp.ok THEN resp.items
                    ELSE matchesCache[ListKey1].data
         rest == IF returns THEN DetailsPhase(matches)
                 ELSE [sent |-> {}, run |-> IdleRun, done |-> FALSE]
     IN  /\ matchesCache' =
               IF resp.ok
                 THEN mapSet(matchesCache, ListKey1,
                             [data |-> resp.items, timestamp |-> now])
                 ELSE matchesCache
         /\ updateRun' = rest.run
         /\ sent' = rest.sent
         /\ activeSubscriptions' =
               [activeSubscriptions EXCEPT
                  !.lastUpdated = IF rest.done THEN now ELSE @]
  /\ UNCHANGED <<socketState, matchRoom, activeMatchSubscriptions,
                 matchDetailsCache, matchFetch>>
  /\ UNCHANGED <<now, schedVars, fetchVars, matchesCall>>

\* fetchMatchDetails, called by updateMatches, after its await: a response
\* is stored and returned; after a failure the data of the entry, if there
\* is one, is returned, else null.  Details that are not null are emitted
\* to the room of the match.  With the last of them updateMatches emits the
\* matches and stamps lastUpdated.
DetailResponds1(id, resp) ==
  /\ updateRun.pc = "details"
  /\ id \in updateRun.pending
  /\ LET details == IF resp.ok THEN resp.data
                    ELSE IF id \in DOMAIN matchDetailsCache
                           THEN matchDetailsCache[id].data
                           ELSE NullDetails
         msgs == IF details # NullDetails
                   THEN {Emit("room", matchRoom[id], id, details, now)}
                   ELSE {}
         last == updateRun.pending = {id}
     IN  /\ matchDetailsCache' =
               IF resp.ok
                 THEN mapSet(matchDetailsCache, id,
                             [data |-> resp.data, timestamp |-> now])
                 ELSE matchDetailsCache
         /\ sent' = IF last THEN msgs \cup {ListEmit(updateRun.matches)}
                    ELSE msgs
         /\ updateRun' = IF last THEN IdleRun
                         ELSE [updateRun EXCEPT !.pending = @ \ {id}]
         /\ activeSubscriptions' =
               [activeSubscriptions EXCEPT
                  !.lastUpdated = IF last THEN now ELSE @]
  /\ UNCHANGED <<socketState, matchRoom, activeMatchSubscriptions,
                 matchFetch, matchesCache>>
  /\ UNCHANGED <<now, schedVars, fetchVars, matchesCall>>

\* Sockets subscribe to a sport's matches and to single matches while the
\* matches are updated, all within one CACHE_TTL: the clock stands, so an
\* entry once written is fresh.
NextMatches1 ==
  \/ \E s \in Sockets : ConnectMatch(s)
  \/ \E s \in Sockets : SubscribeMatches1(s)
  \/ \E s \in Sockets : UnsubscribeMatches1(s)
  \/ \E s \in Sockets, matchId \in MatchIds : SubscribeMatch(s, matchId)
  \/ \E s \in Sockets, matchId \in MatchIds : UnsubscribeMatch(s, matchId)
  \/ \E s \in Sockets : DisconnectMatch(s)
  \/ \E s \in Sockets, resp \in MatchResponses : MatchDetailsResponds(s, resp)
  \/ Tick1
  \/ \E resp \in ListResponses : ListResponds1(resp)
  \/ \E id \in MatchIds, resp \in MatchResponses : DetailResponds1(id, resp)
  \/ cleanupInactiveSubscriptions

SpecMatches1 == Init /\ [][NextMatches1]_vars

\* --------------------- index.js, second revision: the retrying fetchMatches
\* fetchMatches(sport, params, retries) up to its await of axios: a fresh
\* entry of the key is returned, else axios is called.
fetchMatches(me, retries) ==
  IF freshList
    THEN [me EXCEPT !.pc = "returned", !.retries = retries,
                    !.result = matchesCache[ListKey1].data]
    ELSE [me EXCEPT !.pc = "attempt", !.retries = retries,
                    !.attempts = @ + 1]

\* updateMatches or the REST handler calls fetchMatches for today's key.
MatchesCallStarts(c) ==
  /\ matchesCall[c].pc \in {"idle", "returned", "threw"}
  /\ matchesCall' = [matchesCall EXCEPT ![c] = fetchMatches(IdleMatchesCall, 3)]
  /\ NoEmit
  /\ UNCHANGED <<now, schedVars, fetchVars>>
  /\ UNCHANGED <<socketState, matchRoom, activeMatchSubscriptions,
                 matchDetailsCache, matchFetch, listVars>>

\* Mutant: a fetchMatches that propagates the first failure.
MatchesAttemptResponds_NoRetry(c, resp) ==
  LET me == matchesCall[c]
  IN  /\ me.pc = "attempt"
      /\ IF resp.ok
           THEN /\ matchesCache' =
                     mapSet(matchesCache, ListKey1,
                            [data |-> resp.items, timestamp |-> now])
                /\ matchesCall' = [matchesCall EXCEPT ![c] =
                     [me EXCEPT !.pc = "returned", !.result = resp.items]]
           ELSE /\ matchesCache' = matchesCache
                /\ matchesCall' = [matchesCall EXCEPT ![c] =
                     IF ListKey1 \in DOMAIN matchesCache
                       THEN [me EXCEPT !.pc = "returned",
                                       !.result = matchesCache[ListKey1].data]
                       ELSE [me EXCEPT !.pc = "threw"]]
      /\ NoEmit
      /\ UNCHANGED <<now, schedVars, fetchVars>>
      /\ UNCHANGED <<socketState, matchRoom, activeMatchSubscriptions,
                     matchDetailsCache, matchFetch, activeSubscriptions,
                     updateRun>>

\* fetchMatches after its await of axios: a response is stored and
\* returned; after a failure the data of the entry, if there is one, is
\* returned; without one the call waits for its setTimeout while it has
\* retries left, else it throws the error.
MatchesAttemptResponds(c, resp) ==
  LET me == matchesCall[c]
  IN  /\ me.pc = "attempt"
      /\ IF resp.ok
           THEN /\ matchesCache' =
                     mapSet(matchesCache, ListKey1,
                            [data |-> resp.items, timestamp |-> now])
                /\ matchesCall' = [matchesCall EXCEPT ![c] =
                     [me EXCEPT !.pc = "returned", !.result = resp.items]]
           ELSE /\ matchesCache' = matchesCache
                /\ matchesCall' = [matchesCall EXCEPT ![c] =
                     IF ListKey1 \in DOMAIN matchesCache
                       THEN [me EXCEPT !.pc = "returned",
                                       !.result = matchesCache[ListKey1].data]
                       ELSE IF me.retries > 0
                              THEN [me EXCEPT !.pc = "delay"]
                              ELSE [me EXCEPT !.pc = "threw"]]
      /\ NoEmit
      /\ UNCHANGED <<now, schedVars, fetchVars>>
      /\ UNCHANGED <<socketState, matchRoom, activeMatchSubscriptions,
                     matchDetailsCache, matchFetch, activeSubscriptions,
                     updateRun>>

\* The setTimeout of a waiting call fires: fetchMatches(sport, params,
\* retries - 1), whose result the call returns.
MatchesRetry(c) ==
  /\ matchesCall[c].pc = "delay"
  /\ matchesCall' = [matchesCall EXCEPT ![c] =
       fetchMatches(matchesCall[c], matchesCall[c].retries - 1)]
  /\ NoEmit
  /\ UNCHANGED <<now, schedVars, fetchVars>>
  /\ UNCHANGED <<socketState, matchRoom, activeMatchSubscriptions,
                 matchDetailsCache, matchFetch, listVars>>

\* updateMatches and the REST handler call fetchMatches for today's key,
\* each again and again, while time passes.
NextRetry ==
  \/ \E c \in Callers : MatchesCallStarts(c)
  \/ \E c \in Callers, resp \in ListResponses : MatchesAttemptResponds(c, resp)
  \/ \E c \in Callers : MatchesRetry(c)
  \/ RaceTimePasses

SpecRetry == Init /\ [][NextRetry]_vars

\* ---------- index.js, third revision: subscriptions to a sport's matches
\* fetchMatches(sport) without parameters: its queryParams, which make its
\* cache key `${sport}:${JSON.stringify(queryParams)}`; a day stands for its
\* 'YYYY-MM-DD' string.
queryParams3 ==
  <<[name |-> "limit", value |-> "100"],
    [name |-> "dateFrom", value |-> ToString(Today - 3)],
    [name |-> "dateTo", value |-> ToString(Today)]>>

\* The key subscribe-matches looks up: `${sport}:{"limit":100}`.
ReplayKey3(sport) == <<sport, <<[name |-> "limit", value |-> "100"]>>>>

\* socket.on('subscribe-matches', sport) for a known sport: the socket
\* joins; startMatchUpdates for a first subscriber, which without an
\* interval calls updateMatches (up to the await in fetchMatches) and sets
\* the interval; the entry of the looked-up key, if there is one, is
\* emitted to the socket.
SubscribeMatches3(s) ==
  /\ socketState[s] = "open"
  /\ LET joined == activeSubscriptions.users \cup {s}
         starts == Cardinality(joined) = 1
                   /\ activeSubscriptions.interval = NULL
     IN  /\ activeSubscriptions' =
               [activeSubscriptions EXCEPT
                  !.users = joined,
                  !.interval = IF starts THEN 1 ELSE @]
         /\ updateRun' = IF starts THEN [updateRun EXCEPT !.pc = "list"]
                         ELSE updateRun
  /\ sent' = IF ReplayKey3(UpdatedSport) \in DOMAIN matchesCache
               THEN {Emit("socket", {s}, UpdatedSport,
                          matchesCache[ReplayKey3(UpdatedSport)].data,
                          matchesCache[ReplayKey3(UpdatedSport)].timestamp)}
               ELSE {}
  /\ UNCHANGED <<socketState, matchRoom, activeMatchSubscriptions,
                 matchDetailsCache, matchFetch, matchesCache>>
  /\ UNCHANGED <<now, schedVars, fetchVars, matchesCall>>

\* socket.on('unsubscribe-matches', sport): the socket leaves; lastUpdated
\* is stamped when nobody is left.
UnsubscribeMatches3(s) ==
  /\ socketState[s] = "open"
  /\ LET left == activeSubscriptions.users \ {s}
     IN  activeSubscriptions' =
           [activeSubscriptions EXCEPT
              !.users = left,
              !.lastUpdated = IF left = {} THEN now ELSE @]
  /\ NoEmit
  /\ UNCHANGED <<socketState, matchRoom, activeMatchSubscriptions,
                 matchDetailsCache, matchFetch, matchesCache, updateRun>>
  /\ UNCHANGED <<now, schedVars, fetchVars, matchesCall>>

\* socket.on('disconnect'): the socket is deleted from the users it is in,
\* with a stamp of lastUpdated when nobody is left, and from every Set of a
\* match; it is gone from every room.
Disconnect3(s) ==
  /\ socketState[s] = "open"
  /\ socketState' = [socketState EXCEPT ![s] = "closed"]
  /\ LET left == activeSubscriptions.users \ {s}
     IN  activeSubscriptions' =
           [activeSubscriptions EXCEPT
              !.users = left,
              !.lastUpdated = IF s \in activeSubscriptions.users /\ left = {}
                                THEN now ELSE @]
  /\ matchRoom' = [id \in DOMAIN matchRoom |-> matchRoom[id] \ {s}]
  /\ activeMatchSubscriptions' =
       [id \in DOMAIN activeMatchSubscriptions |->
          activeMatchSubscriptions[id] \ {s}]
  /\ NoEmit
  /\ UNCHANGED <<matchDetailsCache, matchFetch, matchesCache, updateRun>>
  /\ UNCHANGED <<now, schedVars, fetchVars, matchesCall>>

\* The interval fires: updateMatches up to the await in fetchMatches.  One
\* run at a time is followed.
Tick3 ==
  /\ activeSubscriptions.interval # NULL
  /\ updateRun.pc = "idle"
  /\ updateRun' = [updateRun EXCEPT !.pc = "list"]
  /\ NoEmit
  /\ UNCHANGED <<socketState, matchRoom, activeMatchSubscriptions,
                 matchDetailsCache, matchFetch, activeSubscriptions,
                 matchesCache>>
  /\ UNCHANGED <<now, schedVars, fetchVars, matchesCall>>

\* fetchMatches after its await and the rest of updateMatches: the matches
\* are stored under the key of the queryParams; for each match with a Set
\* fetchMatchDetails is called and not awaited; the matches are emitted to
\* the room of the sport and lastUpdated is stamped.  A failure is logged.
UpdateMatchesResponds3(resp) ==
  /\ updateRun.pc = "list"
  /\ IF resp.ok
       THEN /\ matchesCache' =
                 mapSet(matchesCache, <<UpdatedSport, queryParams3>>,
                        [data |-> resp.items, timestamp |-> now])
            /\ updateRun' =
                 [pc |-> "idle", matches |-> <<>>,
                  pending |-> updateRun.pending \cup
                    {resp.items[i] : i \in
                       {j \in DOMAIN resp.items :
                          resp.items[j] \in DOMAIN activeMatchSubscriptions}}]
            /\ sent' = {Emit("room", activeSubscriptions.users, UpdatedSport,
                             resp.items, now)}
            /\ activeSubscriptions' =
                 [activeSubscriptions EXCEPT !.lastUpdated = now]
       ELSE /\ updateRun' = [updateRun EXCEPT !.pc = "idle"]
            /\ sent' = {}
            /\ UNCHANGED <<matchesCache, activeSubscriptions>>
  /\ UNCHANGED <<socketState, matchRoom, activeMatchSubscriptions,
                 matchDetailsCache, matchFetch>>
  /\ UNCHANGED <<now, schedVars, fetchVars, matchesCall>>

\* Sockets subscribe to the matches of a sport while they are updated.
NextMatches3 ==
  \/ \E s \in Sockets : ConnectMatch(s)
  \/ \E s \in Sockets : SubscribeMatches3(s)
  \/ \E s \in Sockets : UnsubscribeMatches3(s)
  \/ \E s \in Sockets : Disconnect3(s)
  \/ Tick3
  \/ \E resp \in ListResponses : UpdateMatchesResponds3(resp)
  \/ RaceTimePasses

SpecMatches3 == Init /\ [][NextMatches3]_vars

\* ------------------- index.js, third revision: the details of one match
\* const roomName = `${sport}-${matchId}`: the room of a match of a sport,
\* which here also names the Set activeMatchSubscriptions[sport][matchId].
roomName(sport, matchId) == sport \o "-" \o matchId

\* The upstream details of a match of a sport: they say whose they are.
detailsOf(sport, matchId) == <<roomName(sport, matchId)>>

\* The sport and the match id of a pending fetchMatchDetails(sport, matchId).
sportOf(room) ==
  CHOOSE sport \in SPORTS : \E id \in MatchIds : roomName(sport, id) = room

matchIdOf(room) ==
  CHOOSE id \in MatchIds : \E sport \in SPORTS : roomName(sport, id) = room

\* socket.on('subscribe-match', {sport, matchId}) for a known sport: the
\* socket joins the room of the sport and the match and the Set of the
\* match; an entry of matchDetailsCache under matchId is emitted to the
\* socket as the match-update of this sport and match, otherwise
\* fetchMatchDetails(sport, matchId) starts.  One fetch per socket is
\* followed.
SubscribeMatch3(s, sport, matchId) ==
  /\ socketState[s] = "open"
  /\ matchId \in DOMAIN matchDetailsCache \/ matchFetch[s] = NoMatch
  /\ matchRoom' =
       mapSet(matchRoom, roomName(sport, matchId),
              (IF roomName(sport, matchId) \in DOMAIN matchRoom
                 THEN matchRoom[roomName(sport, matchId)] ELSE {}) \cup {s})
  /\ activeMatchSubscriptions' =
       mapSet(activeMatchSubscriptions, roomName(sport, matchId),
              (IF roomName(sport, matchId) \in DOMAIN activeMatchSubscriptions
                 THEN activeMatchSubscriptions[roomName(sport, matchId)]
                 ELSE {}) \cup {s})
  /\ IF matchId \in DOMAIN matchDetailsCache
       THEN /\ sent' = {Emit("socket", {s}, roomName(sport, matchId),
                             matchDetailsCache[matchId].data,
                             matchDetailsCache[matchId].timestamp)}
            /\ UNCHANGED matchFetch
       ELSE /\ matchFetch' =
                 [matchFetch EXCEPT ![s] = roomName(sport, matchId)]
            /\ NoEmit
  /\ UNCHANGED <<socketState, matchDetailsCache>>
  /\ UNCHANGED <<now, schedVars, fetchVars, matchesCall>>
  /\ UNCHANGED listVars

\* socket.on('unsubscribe-match', {sport, matchId}) for a known sport:
\* nothing without a Set of the match, otherwise the socket leaves the room
\* and the Set.
UnsubscribeMatch3(s, sport, matchId) ==
  /\ socketState[s] = "open"
  /\ IF roomName(sport, matchId) \notin DOMAIN activeMatchSubscriptions
       THEN UNCHANGED <<matchRoom, activeMatchSubscriptions>>
       ELSE /\ matchRoom' =
                 [matchRoom EXCEPT ![roomName(sport, matchId)] = @ \ {s}]
            /\ activeMatchSubscriptions' =
                 [activeMatchSubscriptions EXCEPT
                    ![roomName(sport, matchId)] = @ \ {s}]
  /\ NoEmit
  /\ UNCHANGED <<socketState, matchDetailsCache, matchFetch>>
  /\ UNCHANGED <<now, schedVars, fetchVars, matchesCall>>
  /\ UNCHANGED listVars

\* fetchMatchDetails(sport, matchId) settles, null when the request failed;
\* .then: details are stored under matchId and emitted to the socket that
\* subscribed, which drops them when closed.
MatchDetailsResponds3(s, ok) ==
  /\ matchFetch[s] # NoMatch
  /\ LET sport == sportOf(matchFetch[s])
         matchId == matchIdOf(matchFetch[s])
         details == IF ok THEN detailsOf(sport, matchId) ELSE NullDetails
     IN  IF details # NullDetails
           THEN /\ matchDetailsCache' =
                     mapSet(matchDetailsCache, matchId,
                            [data |-> details, timestamp |-> now])
                /\ sent' = {Emit("socket",
                                 {t \in {s} : socketState[t] = "open"},
                                 roomName(sport, matchId), details, now)}
           ELSE /\ UNCHANGED matchDetailsCache
                /\ NoEmit
  /\ matchFetch' = [matchFetch EXCEPT ![s] = NoMatch]
  /\ UNCHANGED <<socketState, matchRoom, activeMatchSubscriptions>>
  /\ UNCHANGED <<now, schedVars, fetchVars, matchesCall>>
  /\ UNCHANGED listVars

\* Sockets subscribe to the same match id under either sport.
NextDetails3 ==
  \/ \E s \in Sockets : ConnectMatch(s)
  \/ \E s \in Sockets, sport \in SPORTS, id \in MatchIds :
       SubscribeMatch3(s, sport, id)
  \/ \E s \in Sockets, sport \in SPORTS, id \in MatchIds :
       UnsubscribeMatch3(s, sport, id)
  \/ \E s \in Sockets : Disconnect3(s)
  \/ \E s \in Sockets, ok \in BOOLEAN : MatchDetailsResponds3(s, ok)
  \/ RaceTimePasses

SpecDetails3 == Init /\ [][NextDetails3]_vars

\* ------------------------------- part_000: names that are not sports
\* The names a client may give as sport: the sports, a name that is none,
\* and a name of a property every object inherits.
ObjectPrototype == {"constructor"}
SportNames == SPORTS \cup {"tennis"} \cup ObjectPrototype

\* activeSubscriptions[sport] is truthy: activeSubscriptions is an object
\* literal filled with the sports, so it also answers with the properties it
\* inherits.
hasSubscriptions(sport) == sport \in SPORTS \/ sport \in ObjectPrototype

\* socket.on('subscribe', {sport}) for any name: a name without an entry is
\* answered with an 'error' message; for an inherited name the handler
\* throws a TypeError at `.users` of a value that has none.
SubscribeNamed(s, sport) ==
  IF ~hasSubscriptions(sport)
    THEN /\ sent' = {Emit("error", {s}, sport, <<>>, now)}
         /\ UNCHANGED <<now, schedVars, fetchVars, matchesCall>>
         /\ UNCHANGED matchVars
    ELSE IF sport \in SPORTS
      THEN Subscribe(s, sport)
      ELSE /\ sent' = {Emit("uncaught", {}, sport, <<>>, now)}
           /\ UNCHANGED <<now, schedVars, fetchVars, matchesCall>>
           /\ UNCHANGED matchVars

\* GET /:sport/matches without query parameters, up to its await: a name
\* without an entry is answered with status 400, for any other
\* fetchSportData is called.
RequestNamed(sport) ==
  IF ~hasSubscriptions(sport)
    THEN /\ sent' = {Emit("http400", {}, sport, <<>>, now)}
         /\ UNCHANGED <<now, schedVars, fetchVars, matchesCall>>
         /\ UNCHANGED matchVars
    ELSE FetchStart("request", [sport |-> sport, params |-> <<>>])

\* The answers of the provider to the direct call of a request: a body and
\* a network failure.
InvalidResponses == {Resolves(ArrayBody(<<Match("a", Today)>>)), Rejects(0)}

\* Clients subscribe to and request names of every kind.
NextInvalid ==
  \/ \E s \in Sockets, sport \in SportNames : SubscribeNamed(s, sport)
  \/ \E s \in Sockets, sport \in SPORTS : Unsubscribe(s, sport)
  \/ \E sport \in SportNames : RequestNamed(sport)
  \/ \E resp \in InvalidResponses :
       DirectResponds("request", resp, MixedPlan)

SpecInvalid == Init /\ [][NextInvalid]_vars

\* The first call of fetchSportData, on the empty cache.
FirstFetchStart(c, req) ==
  /\ call[c].pc = "idle"
  /\ FetchStart(c, req)

\* One call of fetchSportData on the empty cache, with every answer of the
\* upstream to the direct call and to each per-date call.
NextByDate ==
  \/ \E req \in Requests : FirstFetchStart("request", req)
  \/ \E resp \in DirectResponses : DirectResponds("request", resp, <<>>)
  \/ \E kind \in DateKinds : ByDateResponds("request", kind)

SpecByDate == Init /\ [][NextByDate]_vars

\* ================================================================ claims
\* Whether the subscriber set of `sport` has been empty for longer than the
\* inactivity timeout.
EmptyBeyondTimeout(sport) ==
  /\ users[sport] = {}
  /\ emptySince[sport] # NULL
  /\ (now - emptySince[sport]) > INACTIVITY_TIMEOUT

\* The scheduler state of a topic: Active while its timer is armed.
Active(sport) == interval[sport] # NULL

\* A fetch is issued for `sport` by the step, and for no other sport.
OneFetchFor(sport) == inflight' = [inflight EXCEPT ![sport] = @ + 1]

\* C1 as stated: every subscribe that takes the subscriber count of a topic
\* from 0 to 1 leaves the timer armed and issues exactly one immediate
\* fetch, also when the timer was still armed; a subscribe to a topic that
\* has subscribers issues no fetch.
C1_EveryFirstSubscriberFetches ==
  [][\A s \in Sockets, sp \in SPORTS :
       Subscribe(s, sp) =>
         IF users[sp] = {}
           THEN Active(sp)' /\ OneFetchFor(sp)
           ELSE inflight' = inflight]_vars

\* C1 amended: a subscribe that takes the subscriber count from 0 to 1 while
\* the topic is Idle (no timer) arms the timer and issues exactly one
\* immediate fetch; every other subscribe (a second subscriber, or a first
\* subscriber arriving while the timer is still armed) issues no fetch and
\* leaves the timers as they are.
C1_FirstSubscriberOfIdleTopicFetches ==
  [][\A s \in Sockets, sp \in SPORTS :
       Subscribe(s, sp) =>
         IF users[sp] = {} /\ ~Active(sp)
           THEN /\ Active(sp)'
                /\ TimersOf(sp)' = {[id |-> interval'[sp], sport |-> sp]}
                /\ OneFetchFor(sp)
           ELSE UNCHANGED <<inflight, interval, timers>>]_vars

\* C1 witness: a first subscriber has armed the timer of an Idle topic and
\* its immediate fetch is in flight (the topic was never empty before and no
\* fetch has completed).
C1_Witness ==
  \E s \in Sockets, sp \in SPORTS :
    /\ users[sp] = {s}
    /\ Active(sp)
    /\ inflight[sp] = 1
    /\ lastActive[sp] = NULL

\* C2 as stated: a tick that fires while the topic has no subscriber issues
\* no fetch and disarms the timer of the topic.
C2_TickWithoutSubscribersDisarms ==
  [][\A t \in timers :
       (Tick(t) /\ users[t.sport] = {}) =>
         (inflight' = inflight /\ ~Active(t.sport)')]_vars

\* C3 as stated: once the sweep of the current time has run, a topic whose
\* subscriber set has been empty for longer than the inactivity timeout is
\* Idle and has no live timer (so no tick can fetch for it).
C3_LongEmptyTopicIsIdle ==
  \A sp \in SPORTS :
    (~sweepDue /\ EmptyBeyondTimeout(sp)) =>
      (~Active(sp) /\ TimersOf(sp) = {})

\* C4: every topic has at most one live timer, which is the one its
\* interval field holds; and a start for a topic whose timer exists arms no
\* timer, issues no fetch and leaves the handle as it is.
C4_OneTimerPerTopic ==
  /\ [](\A sp \in SPORTS :
          /\ Cardinality(TimersOf(sp)) <= 1
          /\ TimersOf(sp) = IF Active(sp)
                              THEN {[id |-> interval[sp], sport |-> sp]}
                              ELSE {})
  /\ [][\A s \in Sockets, sp \in SPORTS :
          (Subscribe(s, sp) /\ Active(sp)) =>
            UNCHANGED <<interval, timers, inflight>>]_vars

\* C4 witness: a first subscriber has arrived at a topic whose timer was
\* still armed (the set had become empty before), and no fetch was issued.
C4_Witness ==
  \E s \in Sockets, sp \in SPORTS :
    /\ users[sp] = {s}
    /\ Active(sp)
    /\ emptySince[sp] = NULL
    /\ lastActive[sp] = now
    /\ inflight[sp] = 0
    /\ Cardinality(TimersOf(sp)) = 1

C6_DisconnectStampsEmptied ==
  [][\A s \in Sockets :
       Disconnect(s) =>
         \A sp \in SPORTS :
           /\ users'[sp] = users[sp] \ {s}
           /\ lastActive'[sp] = IF users[sp] = {s} THEN now
                                                   ELSE lastActive[sp]]_vars

\* C6 witness: both topics were emptied at the current time, after time has
\* advanced (a disconnect of a subscriber of both leads here).
C6_Witness ==
  /\ now > StartTime
  /\ \A sp \in SPORTS :
       users[sp] = {} /\ emptySince[sp] = now /\ lastActive[sp] = now

\* ------------------------------------------------- the fetch coordinator
\* The cache key of a call.
KeyOf(me) == buildCacheKey(me.sport, me.params)

\* C7 as stated: a call for the key of the caller's previous call, made less
\* than CACHE_TTL after that call, is a cache hit, and the two calls have
\* issued at most one upstream call in total.
C7_TwoCallsOneUpstreamCall ==
  [][\A c \in Callers, req \in Requests :
       ( /\ FetchStart(c, req)
         /\ call[c].pc \in {"returned", "threw"}
         /\ buildCacheKey(req.sport, req.params) = KeyOf(call[c])
         /\ now - call[c].started < CACHE_TTL )
       => ( /\ call'[c].via = "hit"
            /\ Len(call[c].log) + Len(call'[c].log) <= 1 )]_vars

\* C7 amended: when a call has stored its result in the cache (it got it
\* from the upstream, by the direct call alone or by the direct call and one
\* call per date), a call for the same key made less than CACHE_TTL after it
\* is a cache hit: it issues no upstream call and returns the payload of
\* the entry, so the two calls issue the upstream calls of the first, 1 or
\* 1 + DAYS_RANGE.
C7_SecondCallAfterStoreHits ==
  [][\A c \in Callers, req \in Requests :
       ( /\ FetchStart(c, req)
         /\ call[c].pc = "returned"
         /\ call[c].wroteAt # NULL
         /\ buildCacheKey(req.sport, req.params) = KeyOf(call[c])
         /\ now - call[c].started < CACHE_TTL )
       => ( /\ call'[c].via = "hit"
            /\ call'[c].log = <<>>
            /\ call'[c].result = cache[KeyOf(call[c])].data
            /\ Len(call[c].log) \in {1, 1 + DAYS_RANGE}
            /\ cache' = cache )]_vars

\* C7 witness: a call was answered from the entry that a fallback by date
\* stored less than CACHE_TTL before, some time after it was stored.
C7_Witness ==
  \E c \in Callers :
    /\ call[c].via = "hit"
    /\ cache[KeyOf(call[c])] # UNDEFINED
    /\ call[c].result = cache[KeyOf(call[c])].data
    /\ \E i \in DOMAIN call[c].result : call[c].result[i].id = "x"
    /\ call[c].started > cache[KeyOf(call[c])].timestamp

\* C8: a call that finds an entry for its key whose age is less than
\* CACHE_TTL returns the payload of the entry, issues no upstream call and
\* leaves every entry of the cache as it is.
C8_FreshHitReturnsEntry ==
  [][\A c \in Callers, req \in Requests :
       LET key == buildCacheKey(req.sport, req.params)
       IN  ( /\ FetchStart(c, req)
             /\ cache[key] # UNDEFINED
             /\ now - cache[key].timestamp < CACHE_TTL )
           => ( /\ call'[c].pc = "returned"
                /\ call'[c].result = cache[key].data
                /\ call'[c].log = <<>>
                /\ cache' = cache )]_vars

\* C8 witness: a call has returned the payload of an entry half a CACHE_TTL
\* old without an upstream call, while the other key has an entry too.
C8_Witness ==
  \E c \in Callers :
    /\ call[c].pc = "returned"
    /\ call[c].log = <<>>
    /\ \A k \in CacheKeys : cache[k] # UNDEFINED
    /\ call[c].result = cache[KeyOf(call[c])].data
    /\ call[c].started - cache[KeyOf(call[c])].timestamp = CACHE_TTL \div 2

\* C9: a call that finds an entry for its key treats it as fresh (returns it
\* without an upstream call) exactly when now - timestamp < CACHE_TTL; at
\* age CACHE_TTL and beyond it issues the direct call.
C9_FreshIffYoungerThanTtl ==
  [][\A c \in Callers, req \in Requests :
       LET key == buildCacheKey(req.sport, req.params)
       IN  (FetchStart(c, req) /\ cache[key] # UNDEFINED)
           => IF now - cache[key].timestamp < CACHE_TTL
                THEN call'[c].via = "hit" /\ call'[c].log = <<>>
                ELSE call'[c].pc = "direct" /\ call'[c].log = <<DirectCall>>]_vars

\* C9 witness: a call found an entry of age exactly CACHE_TTL and has issued
\* the direct call.
C9_Witness ==
  \E c \in Callers :
    /\ call[c].pc = "direct"
    /\ call[c].cachedData # UNDEFINED
    /\ call[c].started - call[c].cachedData.timestamp = CACHE_TTL

\* The day of the i-th date of the window, and what the answer of a kind to
\* the call for a day contributes to the result.
WindowDay(i) == Today - (DAYS_RANGE \div 2) + (i - 1)

PerDateResult(kind, day) ==
  CASE kind = "array"  -> <<Match("x", day), Match("y", day)>>
    [] kind = "object" -> <<Match("o", day)>>
    [] OTHER           -> <<>>

RECURSIVE Concatenation(_, _)
Concatenation(got, n) ==
  IF n = 0 THEN <<>>
  ELSE Concatenation(got, n - 1) \o PerDateResult(got[n], WindowDay(n))

\* C10: a direct call answered with fewer than MAX_LIMIT matches is the only
\* upstream call; when it is answered with MAX_LIMIT matches the call for
\* each date of the window follows, one at a time in date order (the next
\* is issued when the one before is answered), and the call returns after
\* the DAYS_RANGE-th with the concatenation of the per-date results in date
\* order.
C10_TruncatedFallsBackByDate ==
  \A c \in Callers :
    LET me == call[c]
    IN  /\ me.via = "direct" =>
             Len(me.result) < MAX_LIMIT /\ me.log = <<DirectCall>>
        /\ me.via = "truncated" =>
             /\ Len(me.log) = IF me.pc = "returned" THEN 1 + DAYS_RANGE
                                                    ELSE 2 + Len(me.got)
             /\ Len(me.log) <= 1 + DAYS_RANGE
             /\ me.log[1] = DirectCall
             /\ \A i \in 2..Len(me.log) : me.log[i] = DateCall(WindowDay(i - 1))
             /\ me.pc \in {"bydate", "returned"}
             /\ me.pc = "returned" =>
                  /\ Len(me.got) = DAYS_RANGE
                  /\ me.result = Concatenation(me.got, DAYS_RANGE)

\* C10 witness: a call whose direct call was answered with MAX_LIMIT matches
\* has returned what five dates gave, two of the seven calls having failed.
C10_Witness ==
  \E c \in Callers :
    /\ call[c].via = "truncated"
    /\ call[c].pc = "returned"
    /\ Cardinality({i \in DOMAIN call[c].got : call[c].got[i] = "fail"}) = 2
    /\ \E i \in DOMAIN call[c].got : call[c].got[i] = "object"
    /\ Len(call[c].result) = 9

\* The elements of a sequence.
Range(seq) == {seq[i] : i \in DOMAIN seq}

\* C11: in a fallback by date (after a page of MAX_LIMIT matches or after a
\* 400 or 500) a failing per-date call does not end the batch: the call for
\* the next date is issued, the call returns only after the DAYS_RANGE-th
\* date, and its result holds the matches of every answered date and no
\* match of a failed date.
C11_FailedDateDoesNotAbort ==
  \A c \in Callers :
    LET me == call[c]
        failed == {i \in DOMAIN me.got : me.got[i] = "fail"}
    IN  me.via \in {"truncated", "dataerror"} =>
          /\ me.pc \in {"bydate", "returned"}
          /\ me.pc = "bydate" =>
               /\ Len(me.got) < DAYS_RANGE
               /\ me.log[Len(me.log)] = DateCall(WindowDay(Len(me.got) + 1))
          /\ me.pc = "returned" =>
               /\ DOMAIN me.got = 1..DAYS_RANGE
               /\ {me.log[i].date : i \in 2..Len(me.log)} =
                    {WindowDay(i) : i \in 1..DAYS_RANGE}
               /\ \A i \in failed :
                    \A m \in Range(me.result) : m.date # WindowDay(i)
               /\ \A i \in (1..DAYS_RANGE) \ failed :
                    Range(PerDateResult(me.got[i], WindowDay(i)))
                      \subseteq Range(me.result)
               /\ \A m \in Range(me.result) :
                    \E i \in (1..DAYS_RANGE) \ failed :
                      m \in Range(PerDateResult(me.got[i], WindowDay(i)))

\* C11 witness: a fallback by date after a 400 or 500 has returned the
\* matches of the middle dates, the calls for the first and the last date
\* having failed.
C11_Witness ==
  \E c \in Callers :
    /\ call[c].via = "dataerror"
    /\ call[c].pc = "returned"
    /\ call[c].got[1] = "fail"
    /\ call[c].got[DAYS_RANGE] = "fail"
    /\ call[c].got[2] = "array"
    /\ Len(call[c].result) >= 2

\* C12 as stated: whenever the direct call is rejected with a 4xx or 5xx
\* status, the fallback by date is started, so nothing is thrown and no
\* stale entry is returned before it has been tried.
C12_RejectedFallsBackByDate ==
  [][\A c \in Callers, resp \in DirectResponses :
       ( /\ call[c].pc = "direct"
         /\ DirectResponds(c, resp, <<>>)
         /\ ~resp.ok
         /\ resp.status \in 400..599 )
       => call'[c].pc = "bydate"]_vars

\* C13 as stated: when the direct call fails with a failure that is neither
\* a 400 nor a 500 and the cache has an entry for the key, the call returns
\* the payload of that entry and leaves the cache as it is.
C13_FailureServesCachedEntry ==
  [][\A c \in Callers, resp \in RaceResponses :
       ( /\ call[c].pc = "direct"
         /\ DirectResponds(c, resp, MixedPlan)
         /\ ~resp.ok
         /\ resp.status \notin {400, 500}
         /\ cache[KeyOf(call[c])] # UNDEFINED )
       => ( /\ call'[c].pc = "returned"
            /\ call'[c].result = cache[KeyOf(call[c])].data
            /\ cache' = cache )]_vars

\* C14: when the direct call fails without a response (network error,
\* timeout) and the cache has no entry for the key, the call throws that
\* error and the cache stays without an entry for the key.
C14_UnavailableWithoutEntryThrows ==
  [][\A c \in Callers, resp \in RaceResponses :
       ( /\ call[c].pc = "direct"
         /\ DirectResponds(c, resp, MixedPlan)
         /\ ~resp.ok
         /\ resp.status = 0
         /\ cache[KeyOf(call[c])] = UNDEFINED )
       => ( /\ call'[c].pc = "threw"
            /\ call'[c].error = resp.status
            /\ call'[c].result = <<>>
            /\ cache' = cache )]_vars

\* C14 witness: a call has thrown the error of its direct call, which got no
\* response, and the cache has no entry for its key.
C14_Witness ==
  \E c \in Callers :
    /\ call[c].pc = "threw"
    /\ call[c].error = 0
    /\ call[c].log = <<DirectCall>>
    /\ cache[KeyOf(call[c])] = UNDEFINED

\* C15 as stated: a call that returns (reports success) returns a sequence of
\* matches without a null in it, and has either been answered from a cache
\* entry or had an upstream call of its own answered.
C15_SuccessHasPayload ==
  \A c \in Callers :
    call[c].pc = "returned" =>
      /\ NullValue \notin Range(call[c].result)
      /\ call[c].via = "dataerror" =>
           \E i \in DOMAIN call[c].got : call[c].got[i] # "fail"

\* A step in which the call of c returns what it got from the upstream.
ReturnsFromUpstream(c) ==
  /\ call[c].pc \in {"direct", "bydate"}
  /\ call'[c].pc = "returned"
  /\ call'[c].via \in {"direct", "truncated", "dataerror"}

\* C16: the step in which a call returns what it got from the upstream (by
\* the direct call or by the fallback by date) sets the entry of its key to
\* the returned payload with the current time as timestamp, whatever the
\* entry was, and changes no other entry.
C16_UpstreamResultIsCached ==
  [][\A c \in Callers :
       ReturnsFromUpstream(c) =>
         cache' = [cache EXCEPT ![KeyOf(call[c])] =
                     [data |-> call'[c].result, timestamp |-> now]]]_vars

\* C16 witness: the entry holds what the later of two calls returned, which
\* differs from what the earlier one had stored a CACHE_TTL before.
C16_Witness ==
  \E c, d \in Callers :
    /\ call[c].pc = "returned" /\ call[c].via = "direct"
    /\ call[d].pc = "returned" /\ call[d].via \in {"truncated", "dataerror"}
    /\ KeyOf(call[c]) = KeyOf(call[d])
    /\ call[d].wroteAt > call[c].wroteAt
    /\ call[d].result # call[c].result
    /\ cache[KeyOf(call[d])] =
         [data |-> call[d].result, timestamp |-> call[d].wroteAt]

\* A step in which updateData ends after its fetch.
UpdateEnds ==
  /\ call["timer"].pc \in {"returned", "threw"}
  /\ call'["timer"].pc = "idle"

\* C17: whenever updateData emits to the room of the sport, the entry of the
\* sport's parameterless key exists, holds the data that is emitted, and was
\* stamped no later than the emitted message.
C17_CacheWrittenBeforePublish ==
  [][\A m \in sent' :
       m.how = "room" =>
         LET entry == cache'[buildCacheKey(m.topic, <<>>)]
         IN  /\ entry # UNDEFINED
             /\ entry.data = m.data
             /\ entry.timestamp <= m.lastUpdated]_vars

\* C17 witness: data fetched from the provider by an update is emitted to a
\* subscriber some time after it was stored.
C17_Witness ==
  \E m \in sent :
    /\ m.how = "room" /\ m.to # {} /\ m.data # <<>>
    /\ cache[buildCacheKey(m.topic, <<>>)].data = m.data
    /\ cache[buildCacheKey(m.topic, <<>>)].timestamp < m.lastUpdated

\* C18 as stated: an updateData whose fetch succeeded emits its payload once
\* to the room with the current time, and an updateData whose fetch failed
\* (it threw, or it was answered neither by the provider nor from the cache)
\* emits nothing.
C18_PublishIffFetchSucceeded ==
  [][UpdateEnds =>
       LET me == call["timer"]
           failed == \/ me.pc = "threw"
                     \/ /\ me.via = "dataerror"
                        /\ \A i \in DOMAIN me.got : me.got[i] = "fail"
       IN  IF failed
             THEN sent' = {}
             ELSE /\ Cardinality(sent') = 1
                  /\ \A m \in sent' : /\ m.how = "room"
                                      /\ m.data = me.result
                                      /\ m.lastUpdated = now]_vars

\* C19 as stated: no message is delivered to a socket that is not, or no
\* longer, subscribed to its topic: a sport's data to one outside the
\* sport's room, a match's details to one outside the match's room.
C19_NotDeliveredToDeparted ==
  \A m \in sent : \A s \in m.to :
    IF m.topic \in MatchIds THEN s \in matchRoom[m.topic]
    ELSE s \in users[m.topic]

\* C20: a call that finds no fresh entry issues its own direct call also
\* while another caller's call for the same key is in flight (that call goes
\* on as it was), and whenever one of them returns what it got from the
\* upstream the entry holds its payload: the entry ends as the payload of
\* the call that completed last.
C20_NoSingleFlight ==
  [][\A c \in Callers :
       /\ \A d \in Callers \ {c}, req \in Requests :
            LET key == buildCacheKey(req.sport, req.params)
            IN  ( /\ FetchStart(c, req)
                  /\ call[d].pc \in {"direct", "bydate"}
                  /\ KeyOf(call[d]) = key
                  /\ cache[key] # UNDEFINED =>
                       now - cache[key].timestamp >= CACHE_TTL )
                => ( /\ call'[c].pc = "direct"
                     /\ call'[c].log = <<DirectCall>>
                     /\ call'[d] = call[d] )
       /\ ReturnsFromUpstream(c) =>
            cache'[KeyOf(call[c])].data = call'[c].result]_vars

\* C20 witness: two calls for the same key both found no entry, each issued
\* its own direct call, and the entry holds what the one that completed
\* last returned, not what the other returned.
C20_Witness ==
  \E c, d \in Callers :
    /\ c # d
    /\ call[c].pc = "returned" /\ call[c].via = "direct"
    /\ call[d].pc = "returned" /\ call[d].via = "direct"
    /\ KeyOf(call[c]) = KeyOf(call[d])
    /\ call[c].started = call[d].started
    /\ call[c].wroteAt = call[c].started
    /\ call[d].wroteAt = call[d].started
    /\ call[c].log = <<DirectCall>> /\ call[d].log = <<DirectCall>>
    /\ call[c].result # call[d].result
    /\ cache[KeyOf(call[c])].data = call[c].result

\* C21: of two applications of buildCacheKey to the same sport, the keys
\* are equal exactly when the parameter objects hold the same name/value
\* pairs, in whatever order they were inserted.
C21_KeyIgnoresInsertionOrder ==
  [][\A c \in Callers :
       (/\ call[c].pc = "keyed" /\ call'[c].pc = "keyed"
        /\ call[c].sport = call'[c].sport)
       => (call[c].cacheKey = call'[c].cacheKey
             <=> Range(call[c].params) = Range(call'[c].params))]_vars

\* C21 witness: a key built from parameters that were not inserted in the
\* order of their names.
C21_Witness ==
  \E c \in Callers :
    /\ call[c].pc = "keyed"
    /\ Len(call[c].params) = 2
    /\ call[c].params[1].name = "season" /\ call[c].params[2].name = "date"
    /\ call[c].cacheKey =
         buildCacheKey(call[c].sport,
                       <<call[c].params[2], call[c].params[1]>>)

\* C23 as stated: a subscribe or a request that names no sport is answered
\* with an error and changes nothing else: every message about such a name
\* is an error message of a step that leaves the registry, the timers and
\* the cache as they are, and fetchSportData is never called for such a
\* name.
C23_UnknownSportOnlyAnError ==
  [][/\ \A m \in sent' :
          m.topic \notin SPORTS \cup MatchIds =>
            /\ m.how \in {"error", "http400"}
            /\ UNCHANGED <<now, schedVars, fetchVars, matchesCall>>
     /\ \A c \in Callers :
          call'[c] # call[c] => call'[c].sport \in SPORTS \cup {""}]_vars

\* C22 as stated: when a socket subscribes to a sport, the entry that the
\* updates of the sport write, if there is one, is emitted with its data
\* and its timestamp to that socket and to no other, no call of
\* fetchSportData is begun or answered by the replay, and without such an
\* entry nothing is emitted: in part_000 the entry of the parameterless
\* key, in the third revision of index.js the entry of fetchMatches(sport).
C22_SubscribeReplaysCanonical ==
  [][\A s \in Sockets :
       /\ (s \notin users[UpdatedSport] /\ s \in users'[UpdatedSport]) =>
            LET entry == cacheGet(buildCacheKey(UpdatedSport, <<>>))
            IN  /\ sent' = IF entry = UNDEFINED THEN {}
                           ELSE {Emit("socket", {s}, UpdatedSport,
                                      entry.data, entry.timestamp)}
                /\ call' = call
       /\ (s \notin activeSubscriptions.users
           /\ s \in activeSubscriptions'.users) =>
            LET key == <<UpdatedSport, queryParams3>>
            IN  sent' = IF key \notin DOMAIN matchesCache THEN {}
                        ELSE {Emit("socket", {s}, UpdatedSport,
                                   matchesCache[key].data,
                                   matchesCache[key].timestamp)}]_vars

\* C24: a step that clears the interval of a sport is taken only while the
\* sport has no subscriber and has had none for longer than
\* INACTIVITY_TIMEOUT.
C24_SweepStopsOnlyLongEmpty ==
  [][\A sp \in SPORTS :
       (interval[sp] # NULL /\ interval'[sp] = NULL) =>
         /\ users[sp] = {} /\ users'[sp] = {}
         /\ EmptyBeyondTimeout(sp)]_vars

\* C24 witness: the sweep has just stopped the updates of a sport that was
\* left more than INACTIVITY_TIMEOUT ago, while another sport keeps its
\* subscriber and its interval.
C24_Witness ==
  \E sp, other \in SPORTS :
    /\ ~sweepDue /\ interval[sp] = NULL /\ TimersOf(sp) = {}
    /\ EmptyBeyondTimeout(sp)
    /\ lastActive[sp] # NULL /\ (now - lastActive[sp]) > INACTIVITY_TIMEOUT
    /\ users[other] # {} /\ interval[other] # NULL

\* C25 as stated: lastActive of a sport changes only in a step that empties
\* the sport's set of users, which stamps it with the current time, and
\* every unsubscribe that empties the set does stamp it.
C25_LastActiveOnlyOnEmptying ==
  [][\A sp \in SPORTS :
       /\ lastActive'[sp] # lastActive[sp] =>
            (users[sp] # {} /\ users'[sp] = {} /\ lastActive'[sp] = now)
       /\ (users[sp] # {} /\ users'[sp] = {}) => lastActive'[sp] = now]_vars

\* C26: a cleanup leaves no match with an empty Set, and a step that
\* deletes the Set of a match deletes an empty one.
C26_CleanupDeletesEmptySets ==
  [][/\ cleanupInactiveSubscriptions =>
          \A id \in DOMAIN activeMatchSubscriptions' :
            activeMatchSubscriptions'[id] # {}
     /\ \A id \in DOMAIN activeMatchSubscriptions :
          id \notin DOMAIN activeMatchSubscriptions' =>
            activeMatchSubscriptions[id] = {}]_vars

\* C26 witness: the Set of a match that a socket subscribed to and left is
\* gone while the fetch of that subscription is still awaited, and no empty
\* Set is left.
C26_Witness ==
  \E s \in Sockets, id \in MatchIds :
    /\ matchFetch[s] = id
    /\ socketState[s] = "open"
    /\ id \notin DOMAIN activeMatchSubscriptions

\* C27 as stated: updateMatches calls fetchMatchDetails only for a match
\* that has a subscriber now, and every match-update it emits to the room
\* of a match goes to at least one subscriber.
C27_DetailsOnlyForSubscribedMatches ==
  [][/\ \A id \in updateRun'.pending \ updateRun.pending :
          /\ id \in DOMAIN activeMatchSubscriptions
          /\ activeMatchSubscriptions[id] # {}
     /\ \A m \in sent' :
          (m.how = "room" /\ m.topic \in MatchIds) => m.to # {}]_vars

\* C28 as stated: whenever subscribe-match finds an entry of the match in
\* matchDetailsCache, an entry younger than CACHE_TTL is emitted to the
\* socket without a call of axios, and for an entry of age CACHE_TTL or
\* more nothing is emitted before fetchMatchDetails has been called.
C28_DetailsServedUnderTtl ==
  [][\A s \in Sockets, id \in MatchIds :
       (SubscribeMatch(s, id) /\ id \in DOMAIN matchDetailsCache) =>
         IF freshDetails(id)
           THEN /\ matchFetch'[s] = NoMatch
                /\ \E m \in sent' : m.data = matchDetailsCache[id].data
           ELSE /\ matchFetch'[s] = id
                /\ sent' = {}]_vars

\* C29: a response whose body is a single object is handled as the sequence
\* of that one object, a body that is a collection as it is: by the
\* truncation check, the cache entry and the return of fetchSportData, and
\* by the concatenation, the cache entry and the return of fetchDataByDate.
C29_Expected(body) == IF body.isArray THEN body.items ELSE <<body.value>>

C29_ObjectNormalisedToSequence ==
  [][LET me == call["request"]
         cacheKey == buildCacheKey(me.sport, me.params)
     IN  /\ \A resp \in DirectResponses :
              (/\ DirectResponds("request", resp, <<>>)
               /\ resp.ok
               /\ Truthy(resp.body)) =>
                 IF Len(C29_Expected(resp.body)) >= MAX_LIMIT
                   THEN call'["request"].pc = "bydate"
                   ELSE /\ call'["request"].pc = "returned"
                        /\ call'["request"].result = C29_Expected(resp.body)
                        /\ cache'[cacheKey].data = C29_Expected(resp.body)
         /\ \A kind \in {"array", "object"} :
              ByDateResponds("request", kind) =>
                LET body == DateResponse(kind, me.dates[Len(me.got) + 1]).body
                    allData == me.allData \o C29_Expected(body)
                IN  IF call'["request"].pc = "bydate"
                      THEN call'["request"].allData = allData
                      ELSE /\ call'["request"].result = allData
                           /\ cache'[cacheKey].data = allData]_vars

\* A direct answer that was a single object has been returned and cached as
\* a sequence of one.
C29_Witness ==
  /\ call["request"].pc = "returned"
  /\ call["request"].via = "direct"
  /\ call["request"].result = <<Match("o", Today)>>
  /\ \E k \in CacheKeys :
       /\ cacheGet(k) # UNDEFINED
       /\ cacheGet(k).data = <<Match("o", Today)>>

\* C30: a key that is in sportDataCache is in it after every step: entries
\* are replaced, never removed.
C30_CacheKeysNeverRemoved ==
  [][\A k \in DOMAIN cache :
       cache[k] # UNDEFINED =>
         /\ k \in DOMAIN cache'
         /\ cache'[k] # UNDEFINED]_vars

\* Two keys are cached, one of them written a CACHE_TTL or more after the
\* other: the older entry is past its TTL and is still there.
C30_Witness ==
  \E k1, k2 \in CacheKeys :
    /\ k1 # k2
    /\ cacheGet(k1) # UNDEFINED
    /\ cacheGet(k2) # UNDEFINED
    /\ cacheGet(k2).timestamp - cacheGet(k1).timestamp >= CACHE_TTL

\* C31: a call of the retrying fetchMatches makes at most 4 calls of axios;
\* it throws only after the 4th has failed; a failed attempt that finds no
\* entry of the key waits for a retry while fewer than 4 were made; and a
\* failed attempt that finds an entry returns its data at once.
C31_RetriesAreBounded ==
  [][\A c \in Callers :
       LET me == matchesCall[c]
           after == matchesCall'[c]
           failed == /\ MatchesAttemptResponds(c, [ok |-> FALSE, items |-> <<>>])
                     /\ matchesCache' = matchesCache
       IN  /\ after.attempts <= 4
           /\ after.pc = "threw" => after.attempts = 4
           /\ (failed /\ ListKey1 \notin DOMAIN matchesCache) =>
                /\ after.attempts = me.attempts
                /\ after.pc = IF me.attempts < 4 THEN "delay" ELSE "threw"
           /\ (failed /\ ListKey1 \in DOMAIN matchesCache) =>
                /\ after.pc = "returned"
                /\ after.attempts = me.attempts
                /\ after.result = matchesCache[ListKey1].data]_vars

\* A call has thrown after its 4th attempt, with no entry of the key.
C31_Witness ==
  \E c \in Callers :
    /\ matchesCall[c].pc = "threw"
    /\ matchesCall[c].attempts = 4
    /\ matchesCall[c].retries = 0
    /\ ListKey1 \notin DOMAIN matchesCache

\* The calendar: whether a year is a leap year, the days of a month, the
\* date after a date, and the order of dates.
IsLeapYear(y) == (y % 4 = 0 /\ y % 100 # 0) \/ y % 400 = 0

DaysInMonth(y, m) ==
  IF m = 2 THEN (IF IsLeapYear(y) THEN 29 ELSE 28)
  ELSE IF m \in {4, 6, 9, 11} THEN 30 ELSE 31

NextDate(date) ==
  IF date[3] < DaysInMonth(date[1], date[2])
    THEN <<date[1], date[2], date[3] + 1>>
    ELSE IF date[2] < 12 THEN <<date[1], date[2] + 1, 1>>
         ELSE <<date[1] + 1, 1, 1>>

DateBefore(a, b) ==
  \/ a[1] < b[1]
  \/ a[1] = b[1] /\ a[2] < b[2]
  \/ a[1] = b[1] /\ a[2] = b[2] /\ a[3] < b[3]

\* C32: getDateRange(days) returns `days` dates, each the calendar day
\* after the one before it, distinct and ascending, with today's date at
\* position floor(days/2) + 1, the 4th of 7.
C32_WindowCentredOnToday ==
  [][\A days \in {d \in 1..MaxWindow :
                     call'["request"].params =
                       <<[name |-> "days", value |-> d]>>} :
     \A today \in {t \in SampleDays :
                      call'["request"].dates[1] =
                        format(getDateRangeOn(t, days)[1])} :
       DateRangeTaken("request", today, days) =>
         LET dates == call'["request"].dates
         IN  /\ Len(dates) = days
             /\ \A i \in 1..(days - 1) : dates[i + 1] = NextDate(dates[i])
             /\ \A i, j \in 1..days :
                  i < j => DateBefore(dates[i], dates[j])
             /\ dates[(days \div 2) + 1] = format(today)
             /\ days = DAYS_RANGE => dates[4] = format(today)]_vars

\* The default window has been taken on a day whose window holds the 29th
\* of February and the 1st of March.
C32_Witness ==
  /\ call["request"].pc = "keyed"
  /\ Len(call["request"].dates) = DAYS_RANGE
  /\ call["request"].dates[2] = <<1972, 2, 29>>
  /\ call["request"].dates[3] = <<1972, 3, 1>>

\* C33: between handlers, a sport that has subscribers has its interval
\* set; in the sport-level server, and in the first revision of
\* src/index.js.
C33_SubscribedSportHasInterval ==
  \A sport \in SPORTS : users[sport] # {} => interval[sport] # NULL

C33_SubscribedMatchesHaveInterval ==
  activeSubscriptions.users # {} => activeSubscriptions.interval # NULL

\* A sport has a subscriber and its interval while its lastActive is older
\* than the inactivity timeout: the sweep has nothing to stop.
C33_Witness ==
  \E sport \in SPORTS :
    /\ users[sport] # {}
    /\ interval[sport] # NULL
    /\ lastActive[sport] # NULL
    /\ now - lastActive[sport] > INACTIVITY_TIMEOUT
    /\ ~sweepDue

\* C34: between handlers the sport is marked active exactly when it has
\* users.
C34_ActiveIffSubscribed ==
  activeSubscriptions.isActive <=> activeSubscriptions.users # {}

\* The last user has left a sport whose interval is still set: the sport
\* is marked inactive before any tick.
C34_Witness ==
  /\ activeSubscriptions.users = {}
  /\ ~activeSubscriptions.isActive
  /\ activeSubscriptions.interval # NULL
  /\ activeSubscriptions.lastUpdated # NULL

\* C35: a socket that has subscribed to the sport, while it stays
\* subscribed and the calls of the upstream succeed, is sooner or later
\* sent an update of the sport: the entry replayed to it, or an update
\* emitted to the room.
C35_Received(s) ==
  \E m \in sent : m.topic = UpdatedSport /\ s \in m.to /\
                  m.how \in {"room", "socket"}

C35_SubscriberIsUpdated ==
  \A s \in Sockets :
    (s \in users[UpdatedSport]) ~>
      (s \notin users[UpdatedSport] \/ C35_Received(s))

\* A socket has subscribed while the first fetch of the sport is under way:
\* nothing was replayed to it, and the sport has no entry yet.
C35_Witness ==
  \E s \in Sockets :
    /\ s \in users[UpdatedSport]
    /\ Cardinality(users[UpdatedSport]) = 2
    /\ cacheGet(buildCacheKey(UpdatedSport, <<>>)) = UNDEFINED
    /\ call["timer"].pc = "direct"
    /\ sent = {}

\* C36 as stated: when the fetch of an updateData has failed (it threw),
\* the end of that updateData leaves every interval, every timer and every
\* set of users as they were.
C36_FailedUpdateKeepsTimer ==
  [][(call["timer"].pc = "threw" /\ call'["timer"].pc = "idle") =>
       /\ interval' = interval
       /\ timers' = timers
       /\ users' = users]_vars

\* C37 as stated: a call of fetchSportData in which every call of the
\* upstream failed leaves the entry that its key had before, data and
\* timestamp.
C37_FailedResolveKeepsEntry ==
  [][\A c \in Callers :
       LET me == call[c]
           cacheKey == buildCacheKey(me.sport, me.params)
           allFailed == /\ me.pc = "bydate"
                        /\ call'[c].pc = "returned"
                        /\ me.via = "dataerror"
                        /\ \A i \in DOMAIN call'[c].got :
                             call'[c].got[i] = "fail"
       IN  (allFailed /\ cacheGet(cacheKey) # UNDEFINED) =>
             cache'[cacheKey] = cache[cacheKey]]_vars

\* C38 as stated: an unsubscribe by a socket that is not among the users of
\* the sport leaves the users, lastActive and the interval of the sport as
\* they were.
C38_UnsubscribeOfNonMemberChangesNothing ==
  [][\A s \in Sockets, sport \in SPORTS :
       (Unsubscribe(s, sport) /\ s \notin users[sport]) =>
         /\ users'[sport] = users[sport]
         /\ lastActive'[sport] = lastActive[sport]
         /\ interval'[sport] = interval[sport]]_vars

\* C39: an unsubscribe or a disconnect of a socket leaves every other
\* socket in the sets of users it was in, sets and clears no interval, and
\* leaves the cache as it was.
C39_LeavingTouchesOnlyOwnMembership ==
  [][\A s \in Sockets :
       (Disconnect(s) \/ \E sport \in SPORTS : Unsubscribe(s, sport)) =>
         /\ \A sport \in SPORTS : users'[sport] \ {s} = users[sport] \ {s}
         /\ interval' = interval
         /\ timers' = timers
         /\ cache' = cache]_vars

\* The same of unsubscribe-matches, unsubscribe-match and disconnect in the
\* first revision of src/index.js.
C39_LeavingMatchesTouchesOnlyOwn ==
  [][\A s \in Sockets :
       (\/ UnsubscribeMatches1(s)
        \/ DisconnectMatch(s)
        \/ \E id \in MatchIds : UnsubscribeMatch(s, id)) =>
         /\ activeSubscriptions'.users \ {s} = activeSubscriptions.users \ {s}
         /\ DOMAIN activeMatchSubscriptions' = DOMAIN activeMatchSubscriptions
         /\ \A id \in DOMAIN activeMatchSubscriptions :
              activeMatchSubscriptions'[id] \ {s} =
                activeMatchSubscriptions[id] \ {s}
         /\ activeSubscriptions'.interval = activeSubscriptions.interval
         /\ matchesCache' = matchesCache
         /\ matchDetailsCache' = matchDetailsCache]_vars

\* The last user of a sport has just left: the sport still has its
\* interval and its entry in the cache.
C39_Witness ==
  /\ users[UpdatedSport] = {}
  /\ emptySince[UpdatedSport] = now
  /\ interval[UpdatedSport] # NULL
  /\ \E t \in timers : t.sport = UpdatedSport
  /\ cacheGet(buildCacheKey(UpdatedSport, <<>>)) # UNDEFINED

\* C40: the details of matches are cached apart per sport: what is served
\* or replayed as the details of a match of one sport was fetched for that
\* match of that sport, never for the match of the same id of another sport.
C40_DetailsServedForOwnSport ==
  \A m \in sent :
    \A sport \in SPORTS, id \in MatchIds :
      (m.how = "socket" /\ m.topic = roomName(sport, id)) =>
        m.data = detailsOf(sport, id)

====
